---------------------------- MODULE Spec2Model ----------------------------
(***************************************************************************)
(* A model of the agent-environment control loop of the Pokemon Emerald   *)
(* reinforcement-learning client: the socket client (MGBAEnvironment),    *)
(* the reward shaper (RewardSystem), the value table (QTable), the        *)
(* epsilon-greedy policy (QLearningAgent), the agent wrapper (RLAgent)    *)
(* and the episode loop (InputCommandLoopAgent / main).                   *)
(*                                                                         *)
(* Python floats are modelled as exact rationals <<n, d>> in lowest terms *)
(* with d > 0: every number the program computes is built from decimal    *)
(* literals with +, -, * and max, so the exact value is representable;    *)
(* IEEE rounding is not modelled.                                         *)
(***************************************************************************)
EXTENDS Integers, Sequences, FiniteSets, TLC

(***************************************************************************)
(* Exact rational arithmetic standing for Python float arithmetic.        *)
(***************************************************************************)
Abs(n) == IF n < 0 THEN -n ELSE n

RECURSIVE GCD(_, _)
GCD(a, b) == IF b = 0 THEN a ELSE GCD(b, a % b)

RNorm(n, d) ==
    LET g == GCD(Abs(n), Abs(d))
        s == IF d < 0 THEN -1 ELSE 1
    IN  <<(s * n) \div g, (s * d) \div g>>

Rat(n, d) == RNorm(n, d)

LCM(a, b) == (a \div GCD(a, b)) * b

RAdd(p, q) ==
    LET l == LCM(p[2], q[2])
    IN  RNorm(p[1] * (l \div p[2]) + q[1] * (l \div q[2]), l)

RNeg(p) == <<-p[1], p[2]>>

RSub(p, q) == RAdd(p, RNeg(q))

RMul(p, q) ==
    LET g1 == GCD(Abs(p[1]), q[2])
        g2 == GCD(Abs(q[1]), p[2])
    IN  RNorm((p[1] \div g1) * (q[1] \div g2), (p[2] \div g2) * (q[2] \div g1))

RLt(p, q) ==
    LET l == LCM(p[2], q[2])
    IN  p[1] * (l \div p[2]) < q[1] * (l \div q[2])

RLe(p, q) == p = q \/ RLt(p, q)

RMax(p, q) == IF RLt(p, q) THEN q ELSE p

Zero == Rat(0, 1)
One == Rat(1, 1)

(***************************************************************************)
(* actions.py: the Action enumeration.  A member is represented by its    *)
(* integer value; ActionNames gives the member names in definition order. *)
(***************************************************************************)
ActionNames == <<"UP", "DOWN", "LEFT", "RIGHT", "A", "B">>

\* ALL_ACTIONS = list(Action): the members in definition order.
ALL_ACTIONS == [i \in 1..Len(ActionNames) |-> i - 1]

\* The set of Action members.
Action == {ALL_ACTIONS[i] : i \in 1..Len(ALL_ACTIONS)}

\* action.name
ActionName(a) == ActionNames[a + 1]

\* Action[name]: lookup by member name; a KeyError when there is no such
\* member (HasAction is then FALSE).
HasAction(name) == \E i \in 1..Len(ActionNames) : ActionNames[i] = name

ActionByName(name) ==
    (CHOOSE i \in 1..Len(ActionNames) : ActionNames[i] = name) - 1

(***************************************************************************)
(* q_table.py: QTable.  q_table is a defaultdict: a function whose domain *)
(* is the set of states that have a row; reading an absent state inserts  *)
(* the default row.  Operators that read return [val, qt]: the value and  *)
(* the table after the read.                                               *)
(***************************************************************************)
\* Mutant of DefaultRow: absent states read as 1.0.
DefaultRow_Ones == [a \in Action |-> One]

\* lambda: {a: 0.0 for a in self.actions}
DefaultRow == [a \in Action |-> Zero]

\* Mutant of Materialize: every read assigns the default row.
Materialize_ResetRow(qt, state) ==
    [s \in DOMAIN qt \cup {state} |->
        IF s = state THEN [a \in Action |-> Zero] ELSE qt[s]]

\* defaultdict.__getitem__ / __missing__: the table after q_table[state].
Materialize(qt, state) ==
    IF state \in DOMAIN qt THEN qt ELSE qt @@ (state :> DefaultRow)

GetStateActions(qt, state) ==
    [val |-> Materialize(qt, state)[state], qt |-> Materialize(qt, state)]

GetQTable(qt, state, action) ==
    [val |-> Materialize(qt, state)[state][action], qt |-> Materialize(qt, state)]

\* Mutant of SetQTable: the table is rebuilt around the row written.
SetQTable_OnlyRow(qt, state, action, value) ==
    [s \in {state} |->
        [a \in Action |->
            IF a = action THEN value
            ELSE IF state \in DOMAIN qt THEN qt[state][a] ELSE Zero]]

SetQTable(qt, state, action, value) ==
    LET m == Materialize(qt, state)
    IN  [m EXCEPT ![state] = [@ EXCEPT ![action] = value]]

\* max(row.values())
RECURSIVE RowMaxFrom(_, _)
RowMaxFrom(row, i) ==
    IF i = Len(ALL_ACTIONS) THEN row[ALL_ACTIONS[i]]
    ELSE RMax(row[ALL_ACTIONS[i]], RowMaxFrom(row, i + 1))

MaxActionValue(qt, state) ==
    [val |-> RowMaxFrom(Materialize(qt, state)[state], 1),
     qt |-> Materialize(qt, state)]

\* Mutant of QTableUpdate: the maximum is read after the write.
QTableUpdate_MaxAfterWrite(qt, state, action, reward, next_state, alpha, gamma) ==
    LET cur == GetQTable(qt, state, action)
        nxt == MaxActionValue(cur.qt, next_state)
        first == RAdd(cur.val, RMul(alpha,
                     RSub(RAdd(reward, RMul(gamma, nxt.val)), cur.val)))
        written == SetQTable(nxt.qt, state, action, first)
        again == MaxActionValue(written, next_state)
        new_q == RAdd(cur.val, RMul(alpha,
                     RSub(RAdd(reward, RMul(gamma, again.val)), cur.val)))
    IN  SetQTable(again.qt, state, action, new_q)

\* Mutant of QTableUpdate: alpha is not applied (the target overwrites).
QTableUpdate_NoAlpha(qt, state, action, reward, next_state, alpha, gamma) ==
    LET cur == GetQTable(qt, state, action)
        nxt == MaxActionValue(cur.qt, next_state)
        new_q == RAdd(cur.val, RSub(RAdd(reward, RMul(gamma, nxt.val)), cur.val))
    IN  SetQTable(nxt.qt, state, action, new_q)

\* QTable.Update
QTableUpdate(qt, state, action, reward, next_state, alpha, gamma) ==
    LET cur == GetQTable(qt, state, action)
        nxt == MaxActionValue(cur.qt, next_state)
        new_q == RAdd(cur.val, RMul(alpha,
                     RSub(RAdd(reward, RMul(gamma, nxt.val)), cur.val)))
    IN  SetQTable(nxt.qt, state, action, new_q)

(***************************************************************************)
(* q_learning_agent.py: QLearningAgent.                                   *)
(***************************************************************************)
\* Mutant of ArgMaxFrom: among equal maxima the last key wins.
ArgMaxFrom_Last(row, i, best) ==
    ALL_ACTIONS[CHOOSE k \in 1..Len(ALL_ACTIONS) :
                  /\ row[ALL_ACTIONS[k]] = RowMaxFrom(row, 1)
                  /\ \A j \in (k + 1)..Len(ALL_ACTIONS) :
                        row[ALL_ACTIONS[j]] # RowMaxFrom(row, 1)]

\* max(q_values, key=q_values.get): the first key, in the row's insertion
\* order, whose value no other key exceeds.
RECURSIVE ArgMaxFrom(_, _, _)
ArgMaxFrom(row, i, best) ==
    IF i > Len(ALL_ACTIONS) THEN best
    ELSE ArgMaxFrom(row, i + 1,
                    IF RLt(row[best], row[ALL_ACTIONS[i]])
                    THEN ALL_ACTIONS[i] ELSE best)

\* Mutant of ChooseAction: explores when random.random() <= epsilon.
ChooseAction_ExploreOnEqual(qt, eps, state, rnd, pick) ==
    IF RLe(rnd, eps)
    THEN [val |-> pick, qt |-> qt]
    ELSE LET q_values == GetStateActions(qt, state)
         IN  [val |-> ArgMaxFrom(q_values.val, 2, ALL_ACTIONS[1]),
              qt |-> q_values.qt]

\* QLearningAgent.ChooseAction.  rnd is the value random.random() returns
\* (0 <= rnd < 1) and pick the member random.choice returns.
ChooseAction(qt, eps, state, rnd, pick) ==
    IF RLt(rnd, eps)
    THEN [val |-> pick, qt |-> qt]
    ELSE LET q_values == GetStateActions(qt, state)
         IN  [val |-> ArgMaxFrom(q_values.val, 2, ALL_ACTIONS[1]),
              qt |-> q_values.qt]

\* QLearningAgent.Update
AgentUpdate(qt, state, action, reward, next_state, al, ga) ==
    QTableUpdate(qt, state, action, reward, next_state, al, ga)

\* Mutant of DecayEpsilon: epsilon is multiplied twice in one call.
DecayEpsilon_Twice(eps, eps_min, eps_decay) ==
    IF RLt(eps_min, eps)
    THEN RMax(RMul(RMax(RMul(eps, eps_decay), eps_min), eps_decay), eps_min)
    ELSE eps

\* Mutant of NextLoopPc: the inner loop starts again while env.isDone.
NextLoopPc_IgnoreDone(lp, done) ==
    IF ~lp THEN "Finally" ELSE "GetState"

\* Mutant of DecayEpsilon: the result is not clamped to epsilon_min.
DecayEpsilon_NoClamp(eps, eps_min, eps_decay) ==
    IF RLt(eps_min, eps) THEN RMul(eps, eps_decay) ELSE eps

\* QLearningAgent.DecayEpsilon
DecayEpsilon(eps, eps_min, eps_decay) ==
    IF RLt(eps_min, eps)
    THEN RMax(RMul(eps, eps_decay), eps_min)
    ELSE eps

(***************************************************************************)
(* reward_system.py: RewardSystem.  The object is a record                *)
(* [visitedTiles, reward, framesNotMoving, pendingGoalLocation,           *)
(*  visitedLocationVisited]; a Goal is [mapBank, mapNum, reward].         *)
(***************************************************************************)
Goal(mapBank, mapNum, reward) ==
    [mapBank |-> mapBank, mapNum |-> mapNum, reward |-> reward]

\* RewardSystem.InitGoalMaps: the fixed seed set.
InitGoalMaps == {Goal(0, 16, Rat(50, 1)), Goal(1, 0, Rat(25, 1))}

\* RewardSystem.__init__
NewRewardSystem ==
    [visitedTiles |-> {}, reward |-> Zero, framesNotMoving |-> 0,
     pendingGoalLocation |-> InitGoalMaps, visitedLocationVisited |-> {}]

\* Mutant of CheckTileRecord: the position is not recorded as visited.
CheckTileRecord_NoRecord(rs, currentPosition) ==
    IF currentPosition \notin rs.visitedTiles
    THEN [rs EXCEPT !.reward = RAdd(@, One)]
    ELSE rs

\* RewardSystem.CheckTileRecord
CheckTileRecord(rs, currentPosition) ==
    IF currentPosition \notin rs.visitedTiles
    THEN [rs EXCEPT !.reward = RAdd(@, One),
                    !.visitedTiles = @ \cup {currentPosition}]
    ELSE rs

\* Mutant of CheckMapGoal: the goal reached stays pending.
CheckMapGoal_KeepPending(rs, currentPosition) ==
    LET hits == {l \in rs.pendingGoalLocation :
                    currentPosition[4] = l.mapNum /\ currentPosition[3] = l.mapBank}
    IN  IF hits = {} THEN rs
        ELSE LET location == CHOOSE l \in hits : TRUE
             IN  [rs EXCEPT !.reward = RAdd(@, location.reward),
                            !.visitedLocationVisited = @ \cup {location}]

\* RewardSystem.CheckMapGoal: the first pending goal on the current map is
\* consumed.  The seed goals lie on distinct maps, so at most one matches
\* and the set's iteration order does not matter.
CheckMapGoal(rs, currentPosition) ==
    LET mapBank == currentPosition[3]
        mapNum == currentPosition[4]
        hits == {l \in rs.pendingGoalLocation :
                    mapNum = l.mapNum /\ mapBank = l.mapBank}
    IN  IF hits = {} THEN rs
        ELSE LET location == CHOOSE l \in hits : TRUE
             IN  [rs EXCEPT !.reward = RAdd(@, location.reward),
                            !.visitedLocationVisited = @ \cup {location},
                            !.pendingGoalLocation = @ \ {location}]

\* The position key UpdateRewardAction builds from an Observation.
CurrentLocation(state) ==
    <<state["x"], state["y"], state["mapBank"], state["mapNum"]>>

\* The threshold of IncreaseInactivityTimer.
InactivityLimit == 1000

\* Mutant of IncreaseInactivityTimer: the penalty applies from the first
\* tick.
IncreaseInactivityTimer_NoThreshold(rs) ==
    [rs EXCEPT !.framesNotMoving = @ + 1, !.reward = RSub(@, Rat(1, 10))]

\* RewardSystem.IncreaseInactivityTimer
IncreaseInactivityTimer(rs) ==
    LET counted == [rs EXCEPT !.framesNotMoving = @ + 1]
    IN  IF counted.framesNotMoving > InactivityLimit
        THEN [counted EXCEPT !.reward = RSub(@, Rat(1, 10))]
        ELSE counted

\* RewardSystem.ResetInactivity
ResetInactivity(rs) == [rs EXCEPT !.framesNotMoving = 0]

\* RewardSystem.UpdateRewardTick
UpdateRewardTick(rs) == IncreaseInactivityTimer(rs)

\* Mutant of UpdateRewardAction: the per-step cost is charged only when
\* the step earned nothing.
UpdateRewardAction_CostWhenIdle(rs, state) ==
    LET tiled == CheckTileRecord(rs, CurrentLocation(state))
        goaled == CheckMapGoal(tiled, CurrentLocation(state))
    IN  IF goaled.reward = rs.reward
        THEN [goaled EXCEPT !.reward = RSub(@, Rat(1, 10))]
        ELSE goaled

\* RewardSystem.UpdateRewardAction: the object after the call; the call
\* returns its reward field.
UpdateRewardAction(rs, state) ==
    LET tiled == CheckTileRecord(rs, CurrentLocation(state))
        goaled == CheckMapGoal(tiled, CurrentLocation(state))
    IN  [goaled EXCEPT !.reward = RSub(@, Rat(1, 10))]

\* RewardSystem.GetReward
GetReward(rs) == rs.reward

\* Mutant of RewardSystemReset: the pending goals are not seeded again.
RewardSystemReset_KeepGoals(rs) ==
    [rs EXCEPT !.visitedTiles = {}, !.reward = Zero, !.framesNotMoving = 0,
               !.visitedLocationVisited = {}]

\* Mutant of RewardSystemReset: the visited tiles are kept.
RewardSystemReset_KeepTiles(rs) ==
    [rs EXCEPT !.reward = Zero, !.framesNotMoving = 0,
               !.visitedLocationVisited = {},
               !.pendingGoalLocation = InitGoalMaps]

\* RewardSystem.Reset
RewardSystemReset(rs) ==
    [rs EXCEPT !.visitedTiles = {}, !.reward = Zero, !.framesNotMoving = 0,
               !.visitedLocationVisited = {},
               !.pendingGoalLocation = InitGoalMaps]

(***************************************************************************)
(* mgba_environment_client.py: the wire and MGBAEnvironment.ParseState.   *)
(* A response read from the socket is None (NoResponse: the read timed    *)
(* out or failed) or a text, held as its tag prefix and the fields that   *)
(* follow it split at the commas: [tag, fields].                          *)
(***************************************************************************)
NoResponse == [tag |-> "None", fields |-> <<>>]

Text(tag, fields) == [tag |-> tag, fields |-> fields]

\* The decimal texts int() accepts in the model, with their values.
IntTexts == <<"0", "1", "16", "-1">>
IntValues == <<0, 1, 16, -1>>

IsIntText(s) == \E i \in 1..Len(IntTexts) : IntTexts[i] = s

\* int(s) for a text int() accepts.
ToInt(s) == IntValues[CHOOSE i \in 1..Len(IntTexts) : IntTexts[i] = s]

\* str.lower() and str.upper() on the tokens the model sends.
Lower(s) == IF s \in {"TRUE", "True", "true"} THEN "true"
            ELSE IF s \in {"FALSE", "False", "false"} THEN "false" ELSE s

Upper(s) == IF s \in {"up", "Up", "UP"} THEN "UP"
            ELSE IF s \in {"down", "DOWN"} THEN "DOWN"
            ELSE IF s \in {"none", "NONE"} THEN "NONE"
            ELSE IF s \in {"start", "START"} THEN "START"
            ELSE IF s \in {"jump", "JUMP"} THEN "JUMP"
            ELSE IF s \in {"left", "LEFT"} THEN "LEFT"
            ELSE IF s \in {"right", "RIGHT"} THEN "RIGHT"
            ELSE IF s \in {"b", "B"} THEN "B" ELSE s

\* MGBAEnvironment.GetErrorState: the dict has the key "direction:" (with
\* a colon) and no key "direction".
GetErrorState ==
    [k \in {"x", "y", "mapBank", "mapNum", "isInBattle", "isDone",
            "lastAction", "currentSteps", "direction:", "reward", "error"} |->
        CASE k \in {"x", "y", "mapBank", "mapNum", "currentSteps"} -> -1
          [] k \in {"isInBattle", "isDone"} -> FALSE
          [] k = "lastAction" -> "UNKNOWN_CLIENT"
          [] k \in {"direction:", "reward"} -> "UNKNOWN"
          [] k = "error" -> TRUE]

\* state.get('error', False)
IsErrorState(state) == "error" \in DOMAIN state /\ state["error"]

\* The dict ParseState builds from nine fields.
StateDict(data, reward) ==
    [k \in {"x", "y", "mapBank", "mapNum", "isInBattle", "isDone",
            "lastAction", "currentSteps", "direction", "reward"} |->
        CASE k = "x" -> ToInt(data[1])
          [] k = "y" -> ToInt(data[2])
          [] k = "mapBank" -> ToInt(data[3])
          [] k = "mapNum" -> ToInt(data[4])
          [] k = "isInBattle" -> Lower(data[5]) = "true"
          [] k = "isDone" -> Lower(data[6]) = "true"
          [] k = "lastAction" -> Upper(data[7])
          [] k = "currentSteps" -> ToInt(data[8])
          [] k = "direction" -> Upper(data[9])
          [] k = "reward" -> reward]

\* Mutant of ParseState: the error state of a reply that fails to parse
\* carries the reply's done field.
ParseState_DoneOnError(response, isDone, reward) ==
    IF response = NoResponse \/ response.tag # "STATE:"
    THEN [state |-> GetErrorState, isDone |-> isDone]
    ELSE LET data == response.fields
         IN  IF Len(data) = 9
             THEN IF \A i \in {1, 2, 3, 4, 8} : IsIntText(data[i])
                  THEN [state |-> StateDict(data, reward),
                        isDone |-> Lower(data[6]) = "true"]
                  ELSE [state |-> [GetErrorState EXCEPT
                                      !["isDone"] = Lower(data[6]) = "true"],
                        isDone |-> Lower(data[6]) = "true"]
             ELSE [state |-> GetErrorState, isDone |-> isDone]

\* MGBAEnvironment.ParseState: [state, isDone], the dict returned and
\* self.isDone after the call.  self.isDone is assigned from the sixth
\* field as soon as there are nine fields, before the int() conversions
\* that may raise (the exception is caught and the error state returned).
ParseState(response, isDone, reward) ==
    IF response = NoResponse \/ (response.tag = "" /\ response.fields = <<>>)
    THEN [state |-> GetErrorState, isDone |-> isDone]
    ELSE IF response.tag = "ERROR:"
    THEN [state |-> GetErrorState, isDone |-> isDone]
    ELSE IF response.tag # "STATE:"
    THEN [state |-> GetErrorState, isDone |-> isDone]
    ELSE LET data == response.fields
         IN  IF Len(data) = 9
             THEN IF \A i \in {1, 2, 3, 4, 8} : IsIntText(data[i])
                  THEN [state |-> StateDict(data, reward),
                        isDone |-> Lower(data[6]) = "true"]
                  ELSE [state |-> GetErrorState,
                        isDone |-> Lower(data[6]) = "true"]
             ELSE [state |-> GetErrorState, isDone |-> isDone]

(***************************************************************************)
(* RL_agent.py: RLAgent.                                                  *)
(***************************************************************************)
\* Whether state["direction"] and Action[...] both succeed: otherwise
\* EncodeState and UpdateAIState raise KeyError.
DirectionOk(state) ==
    "direction" \in DOMAIN state /\ HasAction(state["direction"])

\* Mutant of EncodeState: the direction is numbered in the order of the
\* environment's command vocabulary.
EncodeState_VocabularyOrder(state) ==
    <<state["x"], state["y"], state["mapBank"], state["mapNum"],
      IF state["isInBattle"] THEN 1 ELSE 0,
      (CHOOSE i \in 1..6 :
          <<"UP", "LEFT", "DOWN", "RIGHT", "A", "B">>[i] = state["direction"]) - 1>>

\* RLAgent.EncodeState, where it does not raise.
EncodeState(state) ==
    <<state["x"], state["y"], state["mapBank"], state["mapNum"],
      IF state["isInBattle"] THEN 1 ELSE 0,
      ActionByName(state["direction"])>>

(***************************************************************************)
(* State.                                                                  *)
(***************************************************************************)
VARIABLES
    \* main / InputCommandLoopAgent
    pc,             \* the statement the run is at
    exc,            \* the exception that left the loop, or "none"
    loop,           \* InputCommandLoopAgent's local `loop`
    state,          \* InputCommandLoopAgent's local `state`
    \* MGBAEnvironment
    sock,           \* "None", "open" or "closed"
    connected,
    csvFileHandle,  \* "None", "open" or "closed"
    csvWriter,      \* whether self.csvWriter is not None
    logFile,        \* the number of the log file path in use
    isDone,         \* env.isDone
    rewardSystem,   \* env.rewardSystem
    sent,           \* the kinds of the commands written to the socket
    lastCmd,        \* the last command written to the socket
    exchange,       \* "idle"; "abandoned": a command was sent and control
                    \* left SendCommand before its reply or its timeout;
                    \* "overlapped": a command was sent after that
    inbox,          \* the replies that lie unread in the socket's receive
                    \* buffer, each with the number of the command it
                    \* answers (SpecEnv; in Spec every read may return any
                    \* reply, which covers a late one)
    lastRow,        \* the last row written to the step log
    \* RLAgent / QLearningAgent / QTable
    q_table, epsilon, epsilon_min, epsilon_decay, alpha, gamma,
    agentState, action, agentReward, agentIsDone,
    disk,           \* ./QTables/qTable.pkl: [exists, data]
    exported,       \* the number of ExportCSV files written
    \* history
    calls,          \* operations performed so far
    lastCall,       \* the last operation with its arguments and result
    prevTable,      \* q_table before the last operation
    prevEpsilon,    \* epsilon before the last DecayEpsilon
    epsilon0,       \* epsilon at construction
    grants,         \* per position: novelty bonuses granted this episode
    visits,         \* per position: UpdateRewardAction calls this episode
    hist            \* what the run has done since the last episode end

sockVars == <<sock, connected>>

logVars == <<csvFileHandle, csvWriter, logFile, lastRow>>

wireVars == <<sent, lastCmd, exchange, inbox>>

envVars == <<pc, exc, loop, state, sockVars, logVars, isDone, wireVars>>

paramVars == <<epsilon_min, epsilon_decay, alpha, gamma>>

memoVars == <<agentState, action, agentReward, agentIsDone>>

fileVars == <<disk, exported>>

agentVars == <<q_table, epsilon, paramVars, memoVars, fileVars>>

callVars == <<calls, lastCall, prevTable, prevEpsilon, epsilon0, grants, visits>>

vars == <<envVars, rewardSystem, agentVars, callVars, hist>>

(***************************************************************************)
(* Bounds and input sets.                                                  *)
(***************************************************************************)
MaxCalls == 2       \* operations per run of the agent specification
MaxDecays == 3      \* DecayEpsilon calls per run
MaxShapes == 4      \* RewardSystem calls per run
MaxCmds == 5        \* commands written to the socket per run
MaxParses == 3      \* ParseState calls per run
MaxEnvCalls == 2    \* MGBAEnvironment calls per run
MaxEncodes == 2     \* EncodeState calls per run
MaxConverge == 8    \* DecayEpsilon calls per run of SpecConverge

\* PolicyStates and positions used as inputs.
S0 == <<0, 0, 0, 0, 0, 0>>
S1 == <<1, 0, 0, 16, 0, 1>>
PolicyStates == {S0, S1}

Positions == {<<0, 0, 0, 0>>, <<1, 0, 0, 0>>, <<0, 0, 0, 16>>,
              <<1, 0, 0, 16>>, <<0, 0, 1, 0>>, <<-1, -1, -1, -1>>}

\* An Observation at position p, as far as RewardSystem reads it.
PosDict(p) ==
    [k \in {"x", "y", "mapBank", "mapNum"} |->
        CASE k = "x" -> p[1] [] k = "y" -> p[2]
          [] k = "mapBank" -> p[3] [] k = "mapNum" -> p[4]]

EmptyTable == [s \in {} |-> DefaultRow]

\* ./QTables/qTable.pkl does not exist.
NoFile == [exists |-> FALSE, data |-> {}]

NoCall == [op |-> "none"]

\* The value of the local `state` before the first GetState.
NoState == [k \in {} |-> 0]

\* interrupted: an operator interrupt arrived while the loop was running;
\* doneSeen: an Observation of this episode had done = true; pending: a Step
\* Observation had done = true and no GetState has followed yet; got: the
\* Observation the last GetState returned; iterations: how many iterations
\* of the inner loop have run to their end; the rest: what has been done
\* since the episode ended.
NoHist == [interrupted |-> FALSE, doneSeen |-> FALSE, pending |-> FALSE,
           saved |-> FALSE, exported |-> FALSE, rewardReset |-> FALSE,
           resetOk |-> FALSE, newLog |-> "no", got |-> NoState,
           iterations |-> 0]

ZeroCounts == [p \in Positions |-> 0]

\* MGBAEnvironment.CloseCSVLog: the handle after the call (closing a
\* closed file does nothing).
CloseCSVLog(handle) == IF handle = "None" THEN "None" ELSE "closed"

\* MGBAEnvironment.InitializeCSVLog: [handle, writer] after the call.  When
\* open() raises, the handle keeps its old value and the writer is None.
InitializeCSVLog(handle, openOk) ==
    [handle |-> IF openOk THEN "open" ELSE handle, writer |-> openOk]

(***************************************************************************)
(* Initial values: the objects as their constructors leave them.          *)
(***************************************************************************)
\* MGBAEnvironment.__init__ with logFile given (main): the log is opened.
EnvInit ==
    /\ pc = "Connect" /\ exc = "none" /\ loop = TRUE /\ state = NoState
    /\ sock = "None" /\ connected = FALSE
    /\ \E openOk \in BOOLEAN :
          /\ csvFileHandle = InitializeCSVLog("None", openOk).handle
          /\ csvWriter = InitializeCSVLog("None", openOk).writer
    /\ logFile = 0 /\ isDone = FALSE
    /\ sent = <<>> /\ lastCmd = <<>> /\ lastRow = <<>>
    /\ exchange = "idle" /\ inbox = <<>>

\* No environment object: the specifications of the other objects.
EnvIdle ==
    /\ pc = "Idle" /\ exc = "none" /\ loop = TRUE /\ state = NoState
    /\ sock = "None" /\ connected = FALSE
    /\ csvFileHandle = "None" /\ csvWriter = FALSE
    /\ logFile = 0 /\ isDone = FALSE
    /\ sent = <<>> /\ lastCmd = <<>> /\ lastRow = <<>>
    /\ exchange = "idle" /\ inbox = <<>>

\* QLearningAgent.__init__ with its default arguments, RLAgent.__init__.
AgentInit ==
    /\ q_table = EmptyTable
    /\ alpha = Rat(1, 10) /\ gamma = Rat(99, 100)
    /\ epsilon = One /\ epsilon_min = Rat(1, 20)
    /\ epsilon_decay = Rat(9995, 10000)
    /\ agentState = "None" /\ action = "None"
    /\ agentReward = "None" /\ agentIsDone = "None"
    /\ exported = 0

HistInit ==
    /\ calls = 0 /\ lastCall = NoCall /\ prevTable = EmptyTable
    /\ prevEpsilon = epsilon /\ epsilon0 = epsilon
    /\ grants = ZeroCounts /\ visits = ZeroCounts /\ hist = NoHist

(***************************************************************************)
(* SpecReward: a RewardSystem object under any sequence of its calls.     *)
(***************************************************************************)
\* A new RewardSystem after n UpdateRewardTick calls, n <= InactivityLimit.
Ticked(n) == [NewRewardSystem EXCEPT !.framesNotMoving = n]

\* The object is new, or has counted InactivityLimit - 1 idle ticks.
RewardInit ==
    /\ EnvIdle
    /\ AgentInit /\ disk = NoFile /\ HistInit
    /\ rewardSystem \in {NewRewardSystem, Ticked(InactivityLimit - 1)}

\* UpdateRewardAction(state) with an Observation at position p.
RSUpdateRewardAction(p) ==
    /\ calls < MaxShapes
    /\ rewardSystem' = UpdateRewardAction(rewardSystem, PosDict(p))
    /\ lastCall' = [op |-> "UpdateRewardAction", position |-> p,
                    was |-> rewardSystem,
                    before |-> rewardSystem.reward,
                    tiled |-> CheckTileRecord(rewardSystem, p).reward,
                    goaled |-> CheckMapGoal(CheckTileRecord(rewardSystem, p),
                                            p).reward,
                    ret |-> GetReward(rewardSystem')]
    /\ grants' = [grants EXCEPT ![p] =
                    IF CheckTileRecord(rewardSystem, p).reward
                         # rewardSystem.reward THEN @ + 1 ELSE @]
    /\ visits' = [visits EXCEPT ![p] = @ + 1]
    /\ calls' = calls + 1
    /\ UNCHANGED <<envVars, agentVars, prevTable, prevEpsilon, epsilon0, hist>>

\* Reset()
RSReset ==
    /\ calls < MaxShapes
    /\ rewardSystem' = RewardSystemReset(rewardSystem)
    /\ lastCall' = [op |-> "Reset", was |-> rewardSystem,
                    before |-> rewardSystem.reward]
    /\ grants' = ZeroCounts /\ visits' = ZeroCounts
    /\ calls' = calls + 1
    /\ UNCHANGED <<envVars, agentVars, prevTable, prevEpsilon, epsilon0, hist>>

\* UpdateRewardTick()
RSUpdateRewardTick ==
    /\ calls < MaxShapes
    /\ rewardSystem' = UpdateRewardTick(rewardSystem)
    /\ lastCall' = [op |-> "UpdateRewardTick", was |-> rewardSystem,
                    before |-> rewardSystem.reward]
    /\ calls' = calls + 1
    /\ UNCHANGED <<envVars, agentVars, prevTable, prevEpsilon, epsilon0,
                   grants, visits, hist>>

\* ResetInactivity()
RSResetInactivity ==
    /\ calls < MaxShapes
    /\ rewardSystem' = ResetInactivity(rewardSystem)
    /\ lastCall' = [op |-> "ResetInactivity", was |-> rewardSystem,
                    before |-> rewardSystem.reward]
    /\ calls' = calls + 1
    /\ UNCHANGED <<envVars, agentVars, prevTable, prevEpsilon, epsilon0,
                   grants, visits, hist>>

\* GetReward()
RSGetReward ==
    /\ calls < MaxShapes
    /\ lastCall' = [op |-> "GetReward", was |-> rewardSystem,
                    before |-> rewardSystem.reward,
                    ret |-> GetReward(rewardSystem)]
    /\ calls' = calls + 1
    /\ UNCHANGED <<envVars, rewardSystem, agentVars, prevTable, prevEpsilon,
                   epsilon0, grants, visits, hist>>

RewardNext ==
    \/ \E p \in Positions : RSUpdateRewardAction(p)
    \/ RSReset
    \/ RSUpdateRewardTick
    \/ RSResetInactivity
    \/ RSGetReward

SpecReward == RewardInit /\ [][RewardNext]_vars

(***************************************************************************)
(* SpecEps: DecayEpsilon on an agent constructed with any of a few        *)
(* exploration parameters.                                                 *)
(***************************************************************************)
EpsilonInputs == {Zero, Rat(1, 20), Rat(1, 2), One}
EpsilonMinInputs == {Zero, Rat(1, 20), Rat(1, 2)}
EpsilonDecayInputs == {Zero, Rat(1, 2), Rat(9, 10), One, Rat(3, 2)}

EpsInit ==
    /\ EnvIdle
    /\ rewardSystem = NewRewardSystem
    /\ q_table = EmptyTable
    /\ alpha = Rat(1, 10) /\ gamma = Rat(99, 100)
    /\ epsilon \in EpsilonInputs
    /\ epsilon_min \in EpsilonMinInputs
    /\ epsilon_decay \in EpsilonDecayInputs
    /\ agentState = "None" /\ action = "None"
    /\ agentReward = "None" /\ agentIsDone = "None"
    /\ disk = NoFile /\ exported = 0
    /\ HistInit

\* agent.DecayEpsilon()
EpsDecayEpsilon ==
    /\ calls < MaxDecays
    /\ epsilon' = DecayEpsilon(epsilon, epsilon_min, epsilon_decay)
    /\ prevEpsilon' = epsilon
    /\ lastCall' = [op |-> "DecayEpsilon"]
    /\ calls' = calls + 1
    /\ UNCHANGED <<envVars, rewardSystem, q_table, paramVars, memoVars,
                   fileVars, prevTable, epsilon0, grants, visits, hist>>

EpsNext == EpsDecayEpsilon

SpecEps == EpsInit /\ [][EpsNext]_vars

(***************************************************************************)
(* SpecConverge: an agent whose DecayEpsilon is called again and again,    *)
(* as UpdateAIAgent does at the end of every iteration.  The parameters    *)
(* <<epsilon, epsilon_min, epsilon_decay>> are those for which the         *)
(* products stay within 32 bits for MaxConverge calls.                     *)
(***************************************************************************)
ConvergeInputs ==
    {<<e, m, d>> : e \in {Rat(1, 20), Rat(1, 4), Rat(1, 2), One},
                   m \in {Rat(1, 20), Rat(1, 4), Rat(1, 2)},
                   d \in {Zero, Rat(1, 2)}}
    \cup {<<One, Rat(1, 2), Rat(3, 4)>>, <<Rat(1, 2), Rat(1, 2), Rat(3, 4)>>,
          <<One, Zero, Rat(3, 4)>>, <<One, Rat(1, 2), One>>}

ConvergeInit ==
    /\ EnvIdle
    /\ rewardSystem = NewRewardSystem
    /\ q_table = EmptyTable
    /\ alpha = Rat(1, 10) /\ gamma = Rat(99, 100)
    /\ \E t \in ConvergeInputs :
          epsilon = t[1] /\ epsilon_min = t[2] /\ epsilon_decay = t[3]
    /\ agentState = "None" /\ action = "None"
    /\ agentReward = "None" /\ agentIsDone = "None"
    /\ disk = NoFile /\ exported = 0
    /\ HistInit

\* agent.DecayEpsilon(), once more
CVDecayEpsilon ==
    /\ calls < MaxConverge
    /\ epsilon' = DecayEpsilon(epsilon, epsilon_min, epsilon_decay)
    /\ prevEpsilon' = epsilon
    /\ lastCall' = [op |-> "DecayEpsilon"]
    /\ calls' = calls + 1
    /\ UNCHANGED <<envVars, rewardSystem, q_table, paramVars, memoVars,
                   fileVars, prevTable, epsilon0, grants, visits, hist>>

ConvergeNext == CVDecayEpsilon

\* The caller keeps calling: the call is not postponed forever.
SpecConverge ==
    ConvergeInit /\ [][ConvergeNext]_vars /\ WF_vars(ConvergeNext)

(***************************************************************************)
(* SpecAgent: a QLearningAgent, constructed with any of a few learning    *)
(* parameters on an empty table, under any sequence of ChooseAction and   *)
(* Update calls.                                                           *)
(***************************************************************************)
AlphaInputs == {Rat(1, 10), Rat(1, 2), One}
GammaInputs == {Zero, Rat(9, 10)}
AgentEpsilonInputs == {Zero, Rat(1, 2)}
RewardInputs == {Zero, One, Rat(-1, 10)}
UpdateActions == {0, 1, 5}
RandomInputs == {Zero, Rat(1, 2)}
ChoiceInputs == {0, 4}

AgentSpecInit ==
    /\ EnvIdle
    /\ rewardSystem = NewRewardSystem
    /\ q_table = EmptyTable
    /\ alpha \in AlphaInputs /\ gamma \in GammaInputs
    /\ epsilon \in AgentEpsilonInputs
    /\ epsilon_min = Zero /\ epsilon_decay = Rat(9995, 10000)
    /\ agentState = "None" /\ action = "None"
    /\ agentReward = "None" /\ agentIsDone = "None"
    /\ disk = NoFile /\ exported = 0
    /\ HistInit

\* agent.ChooseAction(s), random.random() giving rnd and random.choice pick.
QChooseAction(s, rnd, pick) ==
    /\ calls < MaxCalls
    /\ LET r == ChooseAction(q_table, epsilon, s, rnd, pick)
       IN  /\ q_table' = r.qt
           /\ lastCall' = [op |-> "ChooseAction", state |-> s, ret |-> r.val,
                           explored |-> RLt(rnd, epsilon)]
    /\ prevTable' = q_table
    /\ calls' = calls + 1
    /\ UNCHANGED <<envVars, rewardSystem, epsilon, paramVars, memoVars,
                   fileVars, prevEpsilon, epsilon0, grants, visits, hist>>

\* agent.Update(s, a, r, s2)
QUpdate(s, a, r, s2) ==
    /\ calls < MaxCalls
    /\ q_table' = AgentUpdate(q_table, s, a, r, s2, alpha, gamma)
    /\ lastCall' = [op |-> "Update", state |-> s, action |-> a,
                    reward |-> r, next_state |-> s2]
    /\ prevTable' = q_table
    /\ calls' = calls + 1
    /\ UNCHANGED <<envVars, rewardSystem, epsilon, paramVars, memoVars,
                   fileVars, prevEpsilon, epsilon0, grants, visits, hist>>

AgentNext ==
    \/ \E s \in PolicyStates, rnd \in RandomInputs, pick \in ChoiceInputs :
          QChooseAction(s, rnd, pick)
    \/ \E s \in PolicyStates, a \in UpdateActions, r \in RewardInputs,
          s2 \in PolicyStates : QUpdate(s, a, r, s2)

SpecAgent == AgentSpecInit /\ [][AgentNext]_vars

(***************************************************************************)
(* Spec: one run of main() with the RL agent chosen: Connect, Ping,       *)
(* InitRLAgent, InputCommandLoopAgent, and Disconnect in the finally      *)
(* clause.  The emulator's Lua server is outside the repository: every    *)
(* read from the socket may return any of Replies.                        *)
(***************************************************************************)
\* STATE: replies with nine well-formed fields
\* x,y,mapBank,mapNum,isInBattle,isDone,lastAction,currentSteps,facing.
GoodReplies ==
    {Text("STATE:", <<x, "0", "0", num, "false", done, "up", "1", "up">>) :
        x \in {"0", "1"}, num \in {"0", "16"}, done \in {"false", "true"}}
    \cup {Text("STATE:", <<"0", "0", "0", "0", "true", "false", "up", "1", "down">>)}

\* A well-formed STATE: reply whose facing is no member of Action.
OddReplies ==
    {Text("STATE:", <<"0", "0", "0", "0", "false", "false", "up", "1", "none">>)}

\* A timeout, a server error, a reply one field short, a reply with a
\* non-integer x (and done = true), and a reply with another tag.
ErrorReplies ==
    {NoResponse,
     Text("ERROR:", <<"unknown command">>),
     Text("STATE:", <<"0", "0", "0", "0", "false", "true", "up", "1">>),
     Text("STATE:", <<"abc", "0", "0", "0", "false", "true", "up", "1", "up">>),
     Text("PONG", <<>>)}

Replies == GoodReplies \cup OddReplies \cup ErrorReplies

AckReplies == {Text("RESET_OK", <<>>), Text("PONG", <<>>), NoResponse,
               Text("ERROR:", <<"unknown command">>)}

\* Values random.random() may return, and members random.choice may pick.
LoopRandomInputs == {Zero, Rat(9999, 10000)}
LoopChoiceInputs == {0, 5}

\* Mutant of Pickle: rows that hold only 0.0 are not written.
Pickle_SkipZeroRows(qt) ==
    {<<s, {<<a, qt[s][a]>> : a \in Action}>> :
        s \in {t \in DOMAIN qt : \E a \in Action : qt[t][a] # Zero}}

\* pickle.dump(dict(q_table)): the rows as (state, items) pairs.
Pickle(qt) == {<<s, {<<a, qt[s][a]>> : a \in Action}>> : s \in DOMAIN qt}

Unpickle(data) ==
    [s \in {d[1] : d \in data} |->
        LET items == (CHOOSE d \in data : d[1] = s)[2]
        IN  [a \in {it[1] : it \in items} |->
                (CHOOSE it \in items : it[1] = a)[2]]]

\* QTable.SaveQTable: the file after pickle.dump(dict(self.q_table), f).
SaveQTable(qt) == [exists |-> TRUE, data |-> Pickle(qt)]

\* QTable.LoadQTable: the table after the load, re-wrapped in a
\* defaultdict (the file exists).
LoadQTable(file) == Unpickle(file.data)

\* QTable.ExportCSV: the data rows written, one per (state, action).
ExportCSV(qt) == {<<s, a, qt[s][a]>> : s \in DOMAIN qt, a \in Action}

(***************************************************************************)
(* SpecTable: a QTable inside its agent under any sequence of reads,      *)
(* Update, ChooseAction, SaveQTable, LoadQTable and ExportCSV calls.  In  *)
(* this specification hist is [savedTable, savedNow, loaded]: the table   *)
(* the file on disk was saved from, whether this run saved it, and        *)
(* whether this run loaded it.                                             *)
(***************************************************************************)
\* Tables an agent holds: after an Update on S0 alone, and after a read of
\* S0 followed by an Update on S1 (S0 has a row of zeros).
SeenTable == QTableUpdate(EmptyTable, S0, 0, One, S0, Rat(1, 2), Rat(9, 10))
ReadTable == GetStateActions(EmptyTable, S0).qt
UsedTable == QTableUpdate(ReadTable, S1, 5, One, S0, Rat(1, 2), Rat(9, 10))
TableInputs == {EmptyTable, SeenTable, UsedTable}
TableRewards == {One}
TableActions == {0, 5}

TableInit ==
    /\ EnvIdle
    /\ rewardSystem = NewRewardSystem
    /\ q_table \in TableInputs
    /\ alpha = Rat(1, 2) /\ gamma = Rat(9, 10)
    /\ epsilon \in AgentEpsilonInputs
    /\ epsilon_min = Zero /\ epsilon_decay = Rat(9995, 10000)
    /\ agentState = "None" /\ action = "None"
    /\ agentReward = "None" /\ agentIsDone = "None"
    /\ exported = 0
    /\ \E t \in TableInputs, there \in BOOLEAN :
          /\ disk = IF there THEN SaveQTable(t) ELSE NoFile
          /\ hist = [savedTable |-> IF there THEN t ELSE EmptyTable,
                     savedNow |-> FALSE, loaded |-> FALSE]
    /\ calls = 0 /\ lastCall = NoCall /\ prevTable = q_table
    /\ prevEpsilon = epsilon /\ epsilon0 = epsilon
    /\ grants = ZeroCounts /\ visits = ZeroCounts

\* What a call of this specification leaves alone besides the table, the
\* files and the history of calls.
tableFrame ==
    <<envVars, rewardSystem, epsilon, paramVars, memoVars, prevEpsilon,
      epsilon0, grants, visits>>

\* q_table.GetStateActions(s)
QTGetStateActions(s) ==
    /\ calls < MaxCalls
    /\ LET r == GetStateActions(q_table, s)
       IN  /\ q_table' = r.qt
           /\ lastCall' = [op |-> "GetStateActions", state |-> s,
                           row |-> r.val]
    /\ prevTable' = q_table /\ calls' = calls + 1
    /\ UNCHANGED <<tableFrame, fileVars, hist>>

\* q_table.GetQTable(s, a)
QTGetQTable(s, a) ==
    /\ calls < MaxCalls
    /\ LET r == GetQTable(q_table, s, a)
       IN  /\ q_table' = r.qt
           /\ lastCall' = [op |-> "GetQTable", state |-> s, action |-> a,
                           ret |-> r.val]
    /\ prevTable' = q_table /\ calls' = calls + 1
    /\ UNCHANGED <<tableFrame, fileVars, hist>>

\* q_table.MaxActionValue(s)
QTMaxActionValue(s) ==
    /\ calls < MaxCalls
    /\ LET r == MaxActionValue(q_table, s)
       IN  /\ q_table' = r.qt
           /\ lastCall' = [op |-> "MaxActionValue", state |-> s,
                           ret |-> r.val]
    /\ prevTable' = q_table /\ calls' = calls + 1
    /\ UNCHANGED <<tableFrame, fileVars, hist>>

\* q_table.Update(s, a, r, s2, alpha, gamma)
QTUpdate(s, a, r, s2) ==
    /\ calls < MaxCalls
    /\ q_table' = QTableUpdate(q_table, s, a, r, s2, alpha, gamma)
    /\ lastCall' = [op |-> "Update", state |-> s, action |-> a,
                    reward |-> r, next_state |-> s2]
    /\ prevTable' = q_table /\ calls' = calls + 1
    /\ UNCHANGED <<tableFrame, fileVars, hist>>

\* agent.ChooseAction(s)
QTChooseAction(s, rnd, pick) ==
    /\ calls < MaxCalls
    /\ LET r == ChooseAction(q_table, epsilon, s, rnd, pick)
       IN  /\ q_table' = r.qt
           /\ lastCall' = [op |-> "ChooseAction", state |-> s, ret |-> r.val,
                           explored |-> RLt(rnd, epsilon)]
    /\ prevTable' = q_table /\ calls' = calls + 1
    /\ UNCHANGED <<tableFrame, fileVars, hist>>

\* q_table.SaveQTable(path)
QTSaveQTable ==
    /\ calls < MaxCalls
    /\ disk' = SaveQTable(q_table)
    /\ hist' = [hist EXCEPT !.savedTable = q_table, !.savedNow = TRUE]
    /\ lastCall' = [op |-> "SaveQTable"]
    /\ prevTable' = q_table /\ calls' = calls + 1
    /\ UNCHANGED <<tableFrame, q_table, exported>>

\* q_table.LoadQTable(path): open() raises when the file does not exist
\* and the table is left as it was.
QTLoadQTable ==
    /\ calls < MaxCalls
    /\ q_table' = IF disk.exists THEN LoadQTable(disk) ELSE q_table
    /\ hist' = [hist EXCEPT !.loaded = @ \/ disk.exists]
    /\ lastCall' = [op |-> "LoadQTable", raised |-> ~disk.exists]
    /\ prevTable' = q_table /\ calls' = calls + 1
    /\ UNCHANGED <<tableFrame, fileVars>>

\* q_table.ExportCSV(path)
QTExportCSV ==
    /\ calls < MaxCalls
    /\ exported' = exported + 1
    /\ lastCall' = [op |-> "ExportCSV", rows |-> ExportCSV(q_table)]
    /\ prevTable' = q_table /\ calls' = calls + 1
    /\ UNCHANGED <<tableFrame, q_table, disk, hist>>

TableNext ==
    \/ \E s \in PolicyStates : QTGetStateActions(s)
    \/ \E s \in PolicyStates, a \in TableActions : QTGetQTable(s, a)
    \/ \E s \in PolicyStates : QTMaxActionValue(s)
    \/ \E s \in PolicyStates, a \in TableActions, r \in TableRewards,
          s2 \in PolicyStates : QTUpdate(s, a, r, s2)
    \/ \E s \in PolicyStates, rnd \in RandomInputs, pick \in ChoiceInputs :
          QTChooseAction(s, rnd, pick)
    \/ QTSaveQTable
    \/ QTLoadQTable
    \/ QTExportCSV

SpecTable == TableInit /\ [][TableNext]_vars

(***************************************************************************)
(* SpecParse: MGBAEnvironment.ParseState applied to any sequence of       *)
(* responses; `state` holds the dict the last call returned.              *)
(***************************************************************************)
\* An empty text, a reply with ten fields, a reply whose step count is no
\* integer, and a reply whose tag is in lower case.
MoreReplies ==
    {Text("", <<>>),
     Text("STATE:", <<"0", "0", "0", "0", "false", "true", "up", "1", "up", "x">>),
     Text("STATE:", <<"0", "0", "0", "0", "false", "false", "up", "1.5", "up">>),
     Text("state:", <<"0", "0", "0", "0", "false", "false", "up", "1", "up">>)}

ParseInputs == Replies \cup MoreReplies

\* The environment is new, or has parsed a reply with done = true and
\* shaped one step.
ParseInit ==
    /\ pc = "Idle" /\ exc = "none" /\ loop = TRUE /\ state = NoState
    /\ sock = "None" /\ connected = FALSE
    /\ csvFileHandle = "None" /\ csvWriter = FALSE
    /\ logFile = 0 /\ isDone \in BOOLEAN
    /\ sent = <<>> /\ lastCmd = <<>> /\ lastRow = <<>>
    /\ exchange = "idle" /\ inbox = <<>>
    /\ rewardSystem \in
          {NewRewardSystem,
           UpdateRewardAction(NewRewardSystem, PosDict(<<0, 0, 0, 0>>))}
    /\ AgentInit /\ disk = NoFile /\ HistInit

\* state = self.ParseState(response)
PSParseState(response) ==
    /\ calls < MaxParses
    /\ LET r == ParseState(response, isDone, GetReward(rewardSystem))
       IN  /\ state' = r.state
           /\ isDone' = r.isDone
    /\ lastCall' = [op |-> "ParseState", response |-> response,
                    was |-> isDone]
    /\ calls' = calls + 1
    /\ UNCHANGED <<pc, exc, loop, sockVars, logVars, wireVars, rewardSystem,
                   agentVars, prevTable, prevEpsilon, epsilon0, grants,
                   visits, hist>>

ParseNext == \E response \in ParseInputs : PSParseState(response)

SpecParse == ParseInit /\ [][ParseNext]_vars

\* MGBAEnvironment.Ping / Reset: the comparison with the literal.
PingOk(response) == response = Text("PONG", <<>>)
ResetOk(response) == response = Text("RESET_OK", <<>>)

\* The row LogState writes.
LogRow(st, act) ==
    <<act, st["x"], st["y"], st["mapBank"], st["mapNum"], st["isInBattle"],
      st["isDone"], st["lastAction"], st["currentSteps"], st["direction"],
      st["reward"]>>

\* MGBAEnvironment.LogState: the last row of the log after the call.
LogState(writer, st, act, row) ==
    IF writer /\ ~IsErrorState(st) THEN LogRow(st, act) ELSE row

\* MGBAEnvironment.GetState after SendCommand returned `response`:
\* [state, isDone, row].
GetStateResult(response, done, rs, writer, row) ==
    LET first == ParseState(response, done, GetReward(rs))
        second == ParseState(response, first.isDone, GetReward(rs))
    IN  [state |-> second.state, isDone |-> second.isDone,
         row |-> LogState(writer, first.state, "PRINT_POSITION", row)]

\* Mutant of StepResult: the Observation returned carries the reward read
\* before the step was shaped.
StepResult_RewardBeforeShaping(response, done, rs, writer, act, row) ==
    LET first == ParseState(response, done, GetReward(rs))
    IN  [state |-> first.state, isDone |-> first.isDone,
         rewardSystem |-> UpdateRewardAction(rs, first.state),
         row |-> LogState(writer, first.state, act, row)]

\* Mutant of StepResult: an error Observation is not shaped.
StepResult_NoShapingOnError(response, done, rs, writer, act, row) ==
    LET first == ParseState(response, done, GetReward(rs))
        shaped == IF IsErrorState(first.state) THEN rs
                  ELSE UpdateRewardAction(rs, first.state)
        second == ParseState(response, first.isDone, GetReward(shaped))
    IN  [state |-> second.state, isDone |-> second.isDone,
         rewardSystem |-> shaped,
         row |-> LogState(writer, first.state, act, row)]

\* MGBAEnvironment.Step after SendCommand returned `response`:
\* [state, isDone, rewardSystem, row].
StepResult(response, done, rs, writer, act, row) ==
    LET first == ParseState(response, done, GetReward(rs))
        shaped == UpdateRewardAction(rs, first.state)
        second == ParseState(response, first.isDone, GetReward(shaped))
    IN  [state |-> second.state, isDone |-> second.isDone,
         rewardSystem |-> shaped,
         row |-> LogState(writer, first.state, act, row)]

(***************************************************************************)
(* SpecEnv: a MGBAEnvironment, connected or not, under any sequence of     *)
(* Step, GetState, Reset and Ping calls.                                   *)
(***************************************************************************)
\* MGBAEnvironment.__init__: self.actions
EnvActions == <<"UP", "LEFT", "DOWN", "RIGHT", "A", "B",
                "START", "SELECT", "L", "R">>

\* Mutant of InVocabulary: every action is accepted.
InVocabulary_Any(act) == act = act

\* MGBAEnvironment.Step: `action in self.actions`
InVocabulary(act) == \E i \in 1..Len(EnvActions) : EnvActions[i] = act

\* Mutant of SendCommand: the command is written again after a timeout.
SendCommand_Retry(snt, kind, response) ==
    IF response = NoResponse THEN Append(Append(snt, kind), kind)
    ELSE Append(snt, kind)

\* MGBAEnvironment.SendCommand on a connected client: what has been
\* written to the socket when it returns `response`.
SendCommand(snt, kind, response) == Append(snt, kind)

\* The action names passed to Step, and the replies the server writes.
StepInputs == {"up", "UP", "b", "start", "jump", "none"}
EnvReplies ==
    {Text("ERROR:", <<"unknown command">>),
     Text("STATE:", <<"0", "0", "0", "0", "false", "true", "up", "1">>),
     Text("STATE:", <<"1", "0", "0", "16", "false", "false", "up", "1", "up">>)}
EnvAckReplies == AckReplies \ {NoResponse}

\* When the server's reply reaches the socket: before the 5 s timeout of
\* the recv that waits for it, after it, or never.
Arrivals == {"in time", "late", "never"}

\* sock.recv(1024) in SendCommand, the command numbered n having been
\* written: [response, of, inbox].  Bytes that lie in the receive buffer
\* are returned at once, whatever command they answer; otherwise the recv
\* waits for the reply and returns it, or raises socket.timeout
\* (response None).  A reply that is not read by this recv stays in the
\* buffer for the next one.
Recv(box, reply, arrival, n) ==
    LET own == [reply |-> reply, of |-> n]
    IN  IF box # <<>>
        THEN [response |-> Head(box).reply, of |-> Head(box).of,
              inbox |-> IF arrival = "never" THEN Tail(box)
                        ELSE Append(Tail(box), own)]
        ELSE IF arrival = "in time"
        THEN [response |-> reply, of |-> n, inbox |-> <<>>]
        ELSE [response |-> NoResponse, of |-> 0,
              inbox |-> IF arrival = "late" THEN <<own>> ELSE <<>>]

\* SendCommand on a client without socket: nothing is sent or read.
NoRecv(box) == [response |-> NoResponse, of |-> 0, inbox |-> box]

EnvSpecInit ==
    /\ pc = "Idle" /\ exc = "none" /\ loop = TRUE /\ state = NoState
    /\ sock \in {"None", "open"} /\ connected = (sock = "open")
    /\ csvFileHandle = "None" /\ csvWriter = FALSE
    /\ logFile = 0 /\ isDone = FALSE
    /\ sent = <<>> /\ lastCmd = <<>> /\ lastRow = <<>>
    /\ exchange = "idle" /\ inbox = <<>>
    /\ rewardSystem = NewRewardSystem
    /\ AgentInit /\ disk = NoFile /\ HistInit

\* What a call of this specification leaves alone.
envFrame ==
    <<pc, exc, loop, sockVars, csvFileHandle, csvWriter, logFile, exchange,
      agentVars, prevTable, prevEpsilon, epsilon0, grants, visits, hist>>

\* env.Step(a)
ENStep(a) ==
    /\ calls < MaxEnvCalls
    /\ IF ~InVocabulary(Upper(a))
       THEN /\ state' = GetErrorState
            /\ lastCall' = [op |-> "Step", arg |-> a, response |-> NoResponse,
                            of |-> 0, before |-> Len(sent), sockWas |-> sock,
                            was |-> rewardSystem]
            /\ UNCHANGED <<sent, lastCmd, inbox, isDone, rewardSystem,
                           lastRow>>
       ELSE \E reply \in EnvReplies, arrival \in Arrivals :
               LET rcv == IF sock = "open"
                          THEN Recv(inbox, reply, arrival, Len(sent) + 1)
                          ELSE NoRecv(inbox)
                   r == StepResult(rcv.response, isDone, rewardSystem,
                                   csvWriter, Upper(a), lastRow)
               IN  /\ sent' = IF sock = "open"
                              THEN SendCommand(sent, "STEP", rcv.response)
                              ELSE sent
                   /\ lastCmd' = IF sock = "open" THEN <<"STEP", Upper(a)>>
                                 ELSE lastCmd
                   /\ inbox' = rcv.inbox
                   /\ state' = r.state
                   /\ isDone' = r.isDone
                   /\ rewardSystem' = r.rewardSystem
                   /\ lastRow' = r.row
                   /\ lastCall' = [op |-> "Step", arg |-> a,
                                   response |-> rcv.response, of |-> rcv.of,
                                   before |-> Len(sent), sockWas |-> sock,
                                   was |-> rewardSystem]
    /\ calls' = calls + 1
    /\ UNCHANGED envFrame

\* env.GetState()
ENGetState ==
    /\ calls < MaxEnvCalls
    /\ \E reply \in EnvReplies, arrival \in Arrivals :
          LET rcv == IF sock = "open"
                     THEN Recv(inbox, reply, arrival, Len(sent) + 1)
                     ELSE NoRecv(inbox)
              r == GetStateResult(rcv.response, isDone, rewardSystem,
                                  csvWriter, lastRow)
          IN  /\ sent' = IF sock = "open"
                         THEN SendCommand(sent, "GETSTATE", rcv.response)
                         ELSE sent
              /\ lastCmd' = IF sock = "open" THEN <<"GETSTATE">> ELSE lastCmd
              /\ inbox' = rcv.inbox
              /\ state' = r.state
              /\ isDone' = r.isDone
              /\ lastRow' = r.row
              /\ lastCall' = [op |-> "GetState", response |-> rcv.response,
                              of |-> rcv.of, before |-> Len(sent),
                              sockWas |-> sock]
    /\ calls' = calls + 1
    /\ UNCHANGED <<envFrame, rewardSystem>>

\* env.Reset() and env.Ping()
ENAck(kind) ==
    /\ calls < MaxEnvCalls
    /\ \E reply \in EnvAckReplies, arrival \in Arrivals :
          LET rcv == IF sock = "open"
                     THEN Recv(inbox, reply, arrival, Len(sent) + 1)
                     ELSE NoRecv(inbox)
          IN  /\ sent' = IF sock = "open"
                         THEN SendCommand(sent, kind, rcv.response)
                         ELSE sent
              /\ lastCmd' = IF sock = "open" THEN <<kind>> ELSE lastCmd
              /\ inbox' = rcv.inbox
              /\ lastCall' = [op |-> kind, response |-> rcv.response,
                              of |-> rcv.of, before |-> Len(sent),
                              sockWas |-> sock,
                              ret |-> IF kind = "RESET"
                                      THEN ResetOk(rcv.response)
                                      ELSE PingOk(rcv.response)]
    /\ calls' = calls + 1
    /\ UNCHANGED <<envFrame, state, isDone, rewardSystem, lastRow>>

EnvNext ==
    \/ \E a \in StepInputs : ENStep(a)
    \/ ENGetState
    \/ \E kind \in {"RESET", "PING"} : ENAck(kind)

SpecEnv == EnvSpecInit /\ [][EnvNext]_vars

(***************************************************************************)
(* SpecEncode: a RLAgent asked to encode, one after the other, any of the  *)
(* Observations GetState and Step can return.                              *)
(***************************************************************************)
\* The fields of a reply that EncodeState does not read (done, lastAction,
\* currentSteps) and the reward the shaper holds when it is parsed.
EncodeContexts ==
    {<<"false", "up", "1", Zero>>, <<"true", "down", "16", One>>,
     <<"false", "down", "1", One>>}

\* What ParseState returns for a timeout, for an ERROR: reply, and for the
\* nine-field replies with the facing direction among up, down, left,
\* right and none.
Observations ==
    {ParseState(response, FALSE, Zero).state :
        response \in {NoResponse, Text("ERROR:", <<"unknown command">>)}}
    \cup {ParseState(Text("STATE:", <<x, "0", "0", "16", battle, c[1], c[2],
                                      c[3], facing>>), FALSE, c[4]).state :
            x \in {"0", "1"}, battle \in {"false", "true"},
            c \in EncodeContexts,
            facing \in {"up", "down", "left", "right", "none"}}

EncodeInit ==
    /\ EnvIdle /\ rewardSystem = NewRewardSystem
    /\ AgentInit /\ disk = NoFile /\ HistInit

\* agent.EncodeState(obs): returns the tuple, or raises KeyError at
\* state["direction"] or at Action[...].
RAEncodeState(obs) ==
    /\ calls < MaxEncodes
    /\ state' = obs
    /\ lastCall' = [op |-> "EncodeState", obs |-> obs,
                    raised |-> ~DirectionOk(obs),
                    ret |-> IF DirectionOk(obs) THEN EncodeState(obs)
                            ELSE <<>>,
                    prev |-> IF lastCall.op = "EncodeState"
                             THEN [obs |-> lastCall.obs, ret |-> lastCall.ret]
                             ELSE [obs |-> NoState, ret |-> <<>>]]
    /\ calls' = calls + 1
    /\ UNCHANGED <<pc, exc, loop, sockVars, logVars, isDone, wireVars,
                   rewardSystem, agentVars, prevTable, prevEpsilon, epsilon0,
                   grants, visits, hist>>

EncodeNext == \E obs \in Observations : RAEncodeState(obs)

SpecEncode == EncodeInit /\ [][EncodeNext]_vars

\* Where control goes when the inner loop's body, or the block after it,
\* has ended: `while loop:` and `while not env.isDone:`.
NextLoopPc(lp, done) ==
    IF ~lp THEN "Finally" ELSE IF ~done THEN "GetState" ELSE "IfDone"

\* RLAgent.UpdateAIState: `if self.isDone == True`.
Terminating(st) == st["isDone"] = TRUE

LoopInit ==
    /\ EnvInit
    /\ rewardSystem = NewRewardSystem
    /\ AgentInit
    /\ disk \in {NoFile, SaveQTable(EmptyTable)}
    /\ HistInit

\* SendCommand(command): the command is written and `response` is read.
Send(kind, command) ==
    /\ Len(sent) < MaxCmds
    /\ sock = "open"
    /\ sent' = Append(sent, kind)
    /\ lastCmd' = command
    /\ exchange' = IF exchange = "idle" THEN "idle" ELSE "overlapped"
    /\ inbox' = inbox

\* main: env.Connect(); on failure sys.exit(1), outside the try.
Connect ==
    /\ pc = "Connect"
    /\ \/ /\ sock' = "open" /\ connected' = TRUE
          /\ pc' = "Ping" /\ exc' = exc
       \/ /\ sock' \in {"None", "open"} /\ connected' = FALSE
          /\ pc' = "Ended" /\ exc' = "SystemExit"
    /\ UNCHANGED <<loop, state, logVars, isDone, wireVars, rewardSystem,
                   agentVars, callVars, hist>>

\* main: env.Ping(); on failure sys.exit(1), inside the try.
Ping ==
    /\ pc = "Ping"
    /\ Send("PING", <<"PING">>)
    /\ \E response \in AckReplies :
          IF PingOk(response)
          THEN pc' = "InitRLAgent" /\ exc' = exc
          ELSE pc' = "Finally" /\ exc' = "SystemExit"
    /\ UNCHANGED <<loop, state, sockVars, logVars, isDone, rewardSystem,
                   agentVars, callVars, hist>>

\* main: env.InitRLAgent(): RLAgent() loads ./QTables/qTable.pkl.
InitRLAgent ==
    /\ pc = "InitRLAgent"
    /\ IF disk.exists
       THEN /\ q_table' = LoadQTable(disk)
            /\ pc' = NextLoopPc(loop, isDone) /\ exc' = exc
       ELSE /\ q_table' = q_table
            /\ pc' = "Finally" /\ exc' = "FileNotFoundError"
    /\ UNCHANGED <<loop, state, sockVars, logVars, isDone, wireVars,
                   rewardSystem, epsilon, paramVars, memoVars, fileVars,
                   callVars, hist>>

\* state = env.GetState()
GetState ==
    /\ pc = "GetState"
    /\ Send("GETSTATE", <<"GETSTATE">>)
    /\ \E response \in Replies :
          LET r == GetStateResult(response, isDone, rewardSystem, csvWriter,
                                  lastRow)
          IN  /\ state' = r.state
              /\ isDone' = r.isDone
              /\ lastRow' = r.row
              /\ hist' = [hist EXCEPT !.pending = FALSE,
                                      !.doneSeen = @ \/ r.state["isDone"],
                                      !.got = r.state]
    /\ pc' = "Think"
    /\ UNCHANGED <<exc, loop, sockVars, csvFileHandle, csvWriter, logFile,
                   rewardSystem, agentVars, callVars>>

\* action = env.agent.ThinkingProcess(state)
Think ==
    /\ pc = "Think"
    /\ IF DirectionOk(state)
       THEN \E rnd \in LoopRandomInputs, pick \in LoopChoiceInputs :
               LET r == ChooseAction(q_table, epsilon, EncodeState(state),
                                     rnd, pick)
               IN  /\ agentState' = EncodeState(state)
                   /\ action' = r.val
                   /\ q_table' = r.qt
                   /\ pc' = "Step" /\ exc' = exc
       ELSE /\ UNCHANGED <<agentState, action, q_table>>
            /\ pc' = "Finally" /\ exc' = "KeyError"
    /\ UNCHANGED <<loop, state, sockVars, logVars, isDone, wireVars,
                   rewardSystem, epsilon, paramVars, agentReward, agentIsDone,
                   fileVars, callVars, hist>>

\* state = env.Step(action.name)
Step ==
    /\ pc = "Step"
    /\ Send("STEP", <<"STEP", ActionName(action)>>)
    /\ \E response \in Replies :
          LET r == StepResult(response, isDone, rewardSystem, csvWriter,
                              ActionName(action), lastRow)
          IN  /\ state' = r.state
              /\ isDone' = r.isDone
              /\ rewardSystem' = r.rewardSystem
              /\ lastRow' = r.row
              /\ hist' = IF r.state["isDone"]
                         THEN [NoHist EXCEPT !.got = hist.got,
                                             !.iterations = hist.iterations,
                                             !.pending = TRUE,
                                             !.doneSeen = TRUE]
                         ELSE hist
    /\ pc' = "UpdState"
    /\ UNCHANGED <<exc, loop, sockVars, csvFileHandle, csvWriter, logFile,
                   agentVars, callVars>>

\* env.agent.UpdateAIState(state): at episode end the table is saved and
\* exported; either write may fail, and the exception leaves the loop.
UpdateAIState ==
    /\ pc = "UpdState"
    /\ IF ~DirectionOk(state)
       THEN /\ pc' = "Finally" /\ exc' = "KeyError"
            /\ UNCHANGED <<agentReward, agentIsDone, fileVars, hist>>
       ELSE /\ agentReward' = state["reward"]
            /\ agentIsDone' = state["isDone"]
            /\ IF Terminating(state)
               THEN \E saveOk \in BOOLEAN, exportOk \in BOOLEAN :
                       /\ disk' = IF saveOk THEN SaveQTable(q_table) ELSE disk
                       /\ exported' = IF saveOk /\ exportOk
                                      THEN exported + 1 ELSE exported
                       /\ hist' = [hist EXCEPT !.saved = saveOk,
                                               !.exported = saveOk /\ exportOk]
                       /\ IF saveOk /\ exportOk
                          THEN pc' = "UpdAgent" /\ exc' = exc
                          ELSE pc' = "Finally" /\ exc' = "OSError"
               ELSE /\ pc' = "UpdAgent" /\ exc' = exc
                    /\ UNCHANGED <<fileVars, hist>>
    /\ UNCHANGED <<loop, state, sockVars, logVars, isDone, wireVars,
                   rewardSystem, q_table, epsilon, paramVars, agentState,
                   action, callVars>>

\* env.agent.UpdateAIAgent(state), then the loop tests.
UpdateAIAgent ==
    /\ pc = "UpdAgent"
    /\ q_table' = AgentUpdate(q_table, agentState, action, agentReward,
                              EncodeState(state), alpha, gamma)
    /\ epsilon' = DecayEpsilon(epsilon, epsilon_min, epsilon_decay)
    /\ pc' = NextLoopPc(loop, isDone)
    /\ hist' = [hist EXCEPT !.iterations = @ + 1]
    /\ UNCHANGED <<exc, loop, state, sockVars, logVars, isDone, wireVars,
                   rewardSystem, paramVars, memoVars, fileVars, callVars>>

\* except KeyboardInterrupt, inside the inner loop's try.
KeyboardInterruptInLoop ==
    /\ pc \in {"GetState", "Think", "Step", "UpdState", "UpdAgent"}
    /\ loop' = FALSE
    /\ isDone' = TRUE
    /\ pc' = "IfDone"
    /\ hist' = [hist EXCEPT !.interrupted = TRUE]
    /\ UNCHANGED <<exc, state, sockVars, logVars, wireVars, rewardSystem,
                   agentVars, callVars>>

\* A KeyboardInterrupt inside SendCommand, between send() and the return
\* of recv(): `except Exception` does not catch it, so the command has
\* been written and control leaves GetState or Step for the loop's
\* handler with the reply still to come.
KeyboardInterruptInExchange ==
    /\ pc \in {"GetState", "Step"}
    /\ Len(sent) < MaxCmds /\ sock = "open"
    /\ sent' = Append(sent, IF pc = "GetState" THEN "GETSTATE" ELSE "STEP")
    /\ lastCmd' = IF pc = "GetState" THEN <<"GETSTATE">>
                  ELSE <<"STEP", ActionName(action)>>
    /\ exchange' = IF exchange = "idle" THEN "abandoned" ELSE "overlapped"
    /\ inbox' = inbox
    /\ loop' = FALSE
    /\ isDone' = TRUE
    /\ pc' = "IfDone"
    /\ hist' = [hist EXCEPT !.interrupted = TRUE]
    /\ UNCHANGED <<exc, state, sockVars, logVars, rewardSystem, agentVars,
                   callVars>>

\* The same inside Ping, or inside the Reset of the block after the inner
\* loop: main's except clause.
KeyboardInterruptInMainExchange ==
    /\ pc = "Ping" \/ (pc = "IfDone" /\ isDone)
    /\ Len(sent) < MaxCmds /\ sock = "open"
    /\ sent' = Append(sent, IF pc = "Ping" THEN "PING" ELSE "RESET")
    /\ lastCmd' = IF pc = "Ping" THEN <<"PING">> ELSE <<"RESET">>
    /\ exchange' = IF exchange = "idle" THEN "abandoned" ELSE "overlapped"
    /\ inbox' = inbox
    /\ pc' = "Finally"
    /\ exc' = "KeyboardInterrupt"
    /\ hist' = [hist EXCEPT !.interrupted = TRUE]
    /\ UNCHANGED <<loop, state, sockVars, logVars, isDone, rewardSystem,
                   agentVars, callVars>>

\* The block after the inner loop: `if env.isDone:` with env.Reset().
IfDone ==
    /\ pc = "IfDone"
    /\ IF ~isDone
       THEN /\ pc' = NextLoopPc(loop, isDone)
            /\ UNCHANGED <<wireVars, rewardSystem, isDone, logVars, hist>>
       ELSE /\ Send("RESET", <<"RESET">>)
            /\ \E response \in AckReplies, openOk \in BOOLEAN :
                  IF ResetOk(response)
                  THEN /\ rewardSystem' = RewardSystemReset(rewardSystem)
                       /\ isDone' = FALSE
                       /\ logFile' = logFile + 1
                       /\ csvFileHandle' =
                             InitializeCSVLog(CloseCSVLog(csvFileHandle),
                                              openOk).handle
                       /\ csvWriter' =
                             InitializeCSVLog(CloseCSVLog(csvFileHandle),
                                              openOk).writer
                       /\ lastRow' = IF openOk THEN <<>> ELSE lastRow
                       /\ hist' = [hist EXCEPT
                                      !.rewardReset = TRUE, !.resetOk = TRUE,
                                      !.doneSeen = FALSE,
                                      !.newLog = IF openOk THEN "opened"
                                                 ELSE "failed"]
                       /\ pc' = NextLoopPc(loop, FALSE)
                  ELSE /\ pc' = NextLoopPc(loop, isDone)
                       /\ UNCHANGED <<rewardSystem, isDone, logVars, hist>>
    /\ UNCHANGED <<exc, loop, state, sockVars, agentVars, callVars>>

\* A KeyboardInterrupt outside the inner try: main's except clause.
KeyboardInterruptInMain ==
    /\ pc \in {"Ping", "InitRLAgent", "IfDone"}
    /\ pc' = "Finally"
    /\ exc' = "KeyboardInterrupt"
    /\ hist' = [hist EXCEPT !.interrupted = @ \/ pc = "IfDone"]
    /\ UNCHANGED <<loop, state, sockVars, logVars, isDone, wireVars,
                   rewardSystem, agentVars, callVars>>

\* main: finally: env.Disconnect()
Disconnect ==
    /\ pc = "Finally"
    /\ csvFileHandle' = CloseCSVLog(csvFileHandle)
    /\ sock' = IF sock = "None" THEN sock ELSE "None"
    /\ connected' = IF sock = "None" THEN connected ELSE FALSE
    /\ pc' = "Ended"
    /\ UNCHANGED <<exc, loop, state, csvWriter, logFile, lastRow, isDone,
                   wireVars, rewardSystem, agentVars, callVars, hist>>

Next ==
    \/ Connect
    \/ Ping
    \/ InitRLAgent
    \/ GetState
    \/ Think
    \/ Step
    \/ UpdateAIState
    \/ UpdateAIAgent
    \/ KeyboardInterruptInLoop
    \/ IfDone
    \/ KeyboardInterruptInMain
    \/ KeyboardInterruptInExchange
    \/ KeyboardInterruptInMainExchange
    \/ Disconnect

Spec == LoopInit /\ [][Next]_vars

(***************************************************************************)
(* Properties of the control loop (Spec).                                 *)
(***************************************************************************)
\* C1 as stated: when GetState or Step returns an error Observation the
\* loop goes on to the next iteration; the run is not aborted by it.
C1_Original ==
    IsErrorState(state) => exc # "KeyError"

\* What the controller has done, at the first GetState after an episode
\* end, apart from the new log file.
EpisodeTurnedOver ==
    /\ hist.saved /\ disk.exists
    /\ hist.exported
    /\ hist.rewardReset /\ rewardSystem = NewRewardSystem
    /\ hist.resetOk /\ lastCmd = <<"RESET">>
    /\ ~isDone /\ loop

C3_Original ==
    (pc = "Ended" /\ hist.interrupted) =>
        /\ disk = SaveQTable(q_table)
        /\ csvFileHandle # "open"
        /\ sock # "open"

\* C4 as stated: an Observation with done = true, from GetState or from
\* Step, ends the episode: no further iteration of the same episode starts.
C4_Original ==
    pc = "GetState" => ~hist.doneSeen

\* C5 as stated: RESET is issued before the first GETSTATE or STEP.
C5_Original ==
    \A i \in 1..Len(sent) :
        sent[i] \in {"GETSTATE", "STEP"} =>
            \E j \in 1..(i - 1) : sent[j] = "RESET"

(***************************************************************************)
(* Properties of the value table and the policy (SpecAgent).              *)
(***************************************************************************)
\* Q(s, a) as the table defines it: the entry, or 0.0 for an absent state.
Val(qt, s, a) == IF s \in DOMAIN qt THEN qt[s][a] ELSE Zero

\* The greatest Q(s, A) over all actions A.
MaxQ(qt, s) ==
    CHOOSE m \in {Val(qt, s, a) : a \in Action} :
        \A a \in Action : RLe(Val(qt, s, a), m)

\* reward + gamma * maxNext of the last Update, from the table before it.
Target == RAdd(lastCall.reward, RMul(gamma, MaxQ(prevTable, lastCall.next_state)))

OldValue == Val(prevTable, lastCall.state, lastCall.action)

NewValue == Val(q_table, lastCall.state, lastCall.action)

StrictlyBetween(v, a, b) == (RLt(a, v) /\ RLt(v, b)) \/ (RLt(b, v) /\ RLt(v, a))

Between(v, a, b) == (RLe(a, v) /\ RLe(v, b)) \/ (RLe(b, v) /\ RLe(v, a))

\* C6: Update(s, a, r, s') sets Q(s,a) to Q(s,a) + alpha * (r + gamma *
\* max_A Q(s',A) - Q(s,a)), the maximum being that of the table before the
\* write, also when s' = s; and on a fresh table Update(S, A, 1.0, S) with
\* alpha = 0.5 and gamma = 0.9 leaves Q(S,A) = 0.5.
C6_UpdateRule ==
    lastCall.op = "Update" =>
        /\ NewValue = RAdd(OldValue, RMul(alpha, RSub(Target, OldValue)))
        /\ (/\ prevTable = EmptyTable /\ lastCall.reward = One
            /\ lastCall.next_state = lastCall.state
            /\ alpha = Rat(1, 2) /\ gamma = Rat(9, 10))
           => NewValue = Rat(1, 2)

\* An Update with s' = s whose write raised the row's maximum: the maximum
\* before the write and the one after it differ.
C6_Witness ==
    /\ lastCall.op = "Update"
    /\ lastCall.next_state = lastCall.state
    /\ gamma # Zero
    /\ prevTable # EmptyTable
    /\ MaxQ(q_table, lastCall.state) # MaxQ(prevTable, lastCall.state)

\* C7 as stated: right after Update the value lies strictly between the
\* old value and the target, for every alpha in (0, 1].
C7_Original ==
    lastCall.op = "Update" => StrictlyBetween(NewValue, OldValue, Target)

\* C7 as amended: right after Update the value lies between the old value
\* and the target, ends included; strictly between them when alpha < 1 and
\* the old value is not the target; it is the target when alpha = 1 and
\* the old value when the old value is the target.
C7_Between ==
    lastCall.op = "Update" =>
        /\ Between(NewValue, OldValue, Target)
        /\ (RLt(alpha, One) /\ OldValue # Target)
              => StrictlyBetween(NewValue, OldValue, Target)
        /\ alpha = One => NewValue = Target
        /\ OldValue = Target => NewValue = OldValue

\* An Update with alpha < 1 that moved a non-zero old value toward a
\* different target.
C7_Witness ==
    /\ lastCall.op = "Update"
    /\ RLt(alpha, One)
    /\ OldValue # Zero
    /\ OldValue # Target
    /\ NewValue # OldValue

\* C8: with epsilon = 0, ChooseAction(state) returns an action whose value
\* at that state is at least the value of every other action.
C8_GreedyIsMax ==
    (lastCall.op = "ChooseAction" /\ epsilon = Zero) =>
        \A b \in Action :
            RLe(Val(prevTable, lastCall.state, b),
                Val(prevTable, lastCall.state, lastCall.ret))

\* A greedy choice on a seen state whose row is not flat and whose best
\* action is not the first one.
C8_Witness ==
    /\ lastCall.op = "ChooseAction" /\ epsilon = Zero
    /\ lastCall.state \in DOMAIN prevTable
    /\ lastCall.ret # ALL_ACTIONS[1]
    /\ \E b \in Action : RLt(Val(prevTable, lastCall.state, b),
                             Val(prevTable, lastCall.state, lastCall.ret))

C10_NoveltyOnce ==
    \A p \in Positions : visits[p] >= 1 => grants[p] = 1

\* A position visited again after another position was visited.
C10_Witness ==
    /\ lastCall.op = "UpdateRewardAction"
    /\ visits[lastCall.position] >= 2
    /\ grants[lastCall.position] = 1
    /\ \E q \in Positions \ {lastCall.position} : visits[q] >= 1
    /\ lastCall.tiled = lastCall.before

\* The seed goals on the map of position p (at most one).
SeedGoalsAt(p) ==
    {l \in InitGoalMaps : l.mapBank = p[3] /\ l.mapNum = p[4]}

\* Whether a call of this episode before the last one was on the map of p,
\* the last call having been at p.
EarlierOnMap(p) ==
    \E q \in Positions :
        /\ q[3] = p[3] /\ q[4] = p[4]
        /\ visits[q] > (IF q = p THEN 1 ELSE 0)

\* What CheckMapGoal added in the last UpdateRewardAction call.
GoalGain == RSub(lastCall.goaled, lastCall.tiled)

\* C11: within one episode each seed goal location contributes its reward
\* at most once: the first UpdateRewardAction call on a matching map adds
\* exactly the goal's reward (50 for bank 0 / map 16) and every later call
\* on that map adds nothing from that goal.
C11_GoalOnce ==
    lastCall.op = "UpdateRewardAction" =>
        LET p == lastCall.position
        IN  /\ (SeedGoalsAt(p) # {} /\ ~EarlierOnMap(p)) =>
                  \E l \in SeedGoalsAt(p) : GoalGain = l.reward
            /\ (p[3] = 0 /\ p[4] = 16 /\ ~EarlierOnMap(p)) =>
                  GoalGain = Rat(50, 1)
            /\ EarlierOnMap(p) => GoalGain = Zero
            /\ SeedGoalsAt(p) = {} => GoalGain = Zero

\* A second visit to map 0/16, on a tile not seen before: the novelty
\* bonus is granted and the goal adds nothing.
C11_Witness ==
    /\ lastCall.op = "UpdateRewardAction"
    /\ lastCall.position[3] = 0 /\ lastCall.position[4] = 16
    /\ EarlierOnMap(lastCall.position)
    /\ lastCall.tiled # lastCall.before
    /\ GoalGain = Zero
    /\ Goal(0, 16, Rat(50, 1)) \in rewardSystem.visitedLocationVisited

\* The pending goals matching position p in the object rs.
PendingAt(rs, p) ==
    {l \in rs.pendingGoalLocation : l.mapBank = p[3] /\ l.mapNum = p[4]}

\* C12: each UpdateRewardAction call changes the accumulator by exactly
\* n + g - 0.1, n being 1 if the position key was unvisited and 0
\* otherwise, g the reward of the one pending goal matching the map or 0;
\* the call returns the new cumulative accumulator, not the change.
C12_StepDelta ==
    lastCall.op = "UpdateRewardAction" =>
        LET p == lastCall.position
            n == IF p \in lastCall.was.visitedTiles THEN Zero ELSE One
            pend == PendingAt(lastCall.was, p)
            g == IF pend = {} THEN Zero ELSE (CHOOSE l \in pend : TRUE).reward
        IN  /\ Cardinality(pend) <= 1
            /\ rewardSystem.reward =
                  RSub(RAdd(RAdd(lastCall.before, n), g), Rat(1, 10))
            /\ lastCall.ret = rewardSystem.reward

\* A call that earned nothing on an accumulator that was not zero: what it
\* returns is not the change of -0.1.
C12_Witness ==
    /\ lastCall.op = "UpdateRewardAction"
    /\ lastCall.position \in lastCall.was.visitedTiles
    /\ PendingAt(lastCall.was, lastCall.position) = {}
    /\ lastCall.before # Zero
    /\ lastCall.ret # Rat(-1, 10)
    /\ lastCall.ret = RSub(lastCall.before, Rat(1, 10))

\* C13 as stated: the accumulated reward is never decreased by anything
\* other than the 0.1 per-step cost applied inside UpdateRewardAction.
C13_Original ==
    (lastCall.op # "none" /\ RLt(rewardSystem.reward, lastCall.before)) =>
        /\ lastCall.op = "UpdateRewardAction"
        /\ RSub(lastCall.before, rewardSystem.reward) = Rat(1, 10)

\* C13 as amended: the accumulated reward is decreased only by the 0.1
\* per-step cost of UpdateRewardAction, by the 0.1 inactivity penalty of
\* UpdateRewardTick once InactivityLimit idle ticks have been counted, and
\* by Reset, which sets it to 0; GetReward and ResetInactivity never change
\* it, nor does UpdateRewardTick below the limit.
C13_Decreases ==
    lastCall.op # "none" =>
        /\ RLt(rewardSystem.reward, lastCall.before) =>
              \/ /\ lastCall.op = "UpdateRewardAction"
                 /\ RSub(lastCall.before, rewardSystem.reward) = Rat(1, 10)
              \/ /\ lastCall.op = "UpdateRewardTick"
                 /\ lastCall.was.framesNotMoving >= InactivityLimit
                 /\ RSub(lastCall.before, rewardSystem.reward) = Rat(1, 10)
              \/ /\ lastCall.op = "Reset"
                 /\ rewardSystem.reward = Zero
        /\ lastCall.op \in {"GetReward", "ResetInactivity"} =>
              rewardSystem.reward = lastCall.before
        /\ (/\ lastCall.op = "UpdateRewardTick"
            /\ lastCall.was.framesNotMoving < InactivityLimit) =>
              rewardSystem.reward = lastCall.before

\* An UpdateRewardTick call past the limit that lowered the accumulator.
C13_Witness ==
    /\ lastCall.op = "UpdateRewardTick"
    /\ lastCall.was.framesNotMoving >= InactivityLimit
    /\ RLt(rewardSystem.reward, lastCall.before)

\* C14: Reset() leaves the shaper in the state of a newly constructed one:
\* no visited tiles, no visited goals, the full seed set pending,
\* accumulator 0.
C14_ResetIsNew ==
    lastCall.op = "Reset" =>
        /\ rewardSystem = NewRewardSystem
        /\ rewardSystem.visitedTiles = {}
        /\ rewardSystem.visitedLocationVisited = {}
        /\ rewardSystem.pendingGoalLocation = InitGoalMaps
        /\ rewardSystem.reward = Zero

\* A Reset of a shaper that had visited tiles, a reached goal, a non-zero
\* accumulator and a running inactivity count.
C14_Witness ==
    /\ lastCall.op = "Reset"
    /\ lastCall.was.visitedTiles # {}
    /\ lastCall.was.visitedLocationVisited # {}
    /\ lastCall.was.pendingGoalLocation # InitGoalMaps
    /\ lastCall.was.reward # Zero
    /\ lastCall.was.framesNotMoving # 0

ReadOps == {"GetQTable", "GetStateActions", "MaxActionValue"}

\* C16: reading a state absent from the table behaves as a row of 0.0 for
\* each of the six actions through GetQTable, GetStateActions and
\* MaxActionValue; repeating the read, through the same or another
\* accessor, gives the same values; also after LoadQTable.
C16_LazyDefault ==
    (lastCall.op \in ReadOps /\ lastCall.state \notin DOMAIN prevTable) =>
        /\ Cardinality(Action) = 6
        /\ lastCall.op = "GetQTable" => lastCall.ret = Zero
        /\ lastCall.op = "MaxActionValue" => lastCall.ret = Zero
        /\ lastCall.op = "GetStateActions" =>
              lastCall.row = [a \in Action |-> Zero]
        /\ \A a \in Action :
              GetQTable(q_table, lastCall.state, a).val = Zero
        /\ GetStateActions(q_table, lastCall.state).val =
              [a \in Action |-> Zero]
        /\ MaxActionValue(q_table, lastCall.state).val = Zero

\* A read of a state absent from the data this run loaded, which held
\* another state.
C16_Witness ==
    /\ lastCall.op \in ReadOps
    /\ lastCall.state \notin DOMAIN prevTable
    /\ hist.loaded
    /\ prevTable = hist.savedTable
    /\ prevTable # EmptyTable

QuietOps == ReadOps \cup {"ChooseAction", "SaveQTable", "ExportCSV"}

\* C17 as stated: ChooseAction, GetStateActions, GetQTable,
\* MaxActionValue, SaveQTable and ExportCSV leave the table's set of
\* states and every value unchanged.
C17_Original ==
    lastCall.op \in QuietOps => q_table = prevTable

\* C17 as amended: those operations change no value of the table; the
\* accessors, and ChooseAction when it exploits, add a row of zeros for
\* the state they read when it has none; SaveQTable, ExportCSV and an
\* exploring ChooseAction leave the table as it is.
C17_ReadsAddZeroRows ==
    lastCall.op \in QuietOps =>
        /\ \A s \in DOMAIN prevTable :
              s \in DOMAIN q_table /\ q_table[s] = prevTable[s]
        /\ \A s \in DOMAIN q_table \ DOMAIN prevTable :
              /\ lastCall.op \in ReadOps \cup {"ChooseAction"}
              /\ s = lastCall.state
              /\ q_table[s] = [a \in Action |-> Zero]
        /\ lastCall.op \in {"SaveQTable", "ExportCSV"} => q_table = prevTable
        /\ (lastCall.op = "ChooseAction" /\ lastCall.explored) =>
              q_table = prevTable

\* A greedy ChooseAction on a state the table, which is not empty, had no
\* row for: the table has one more state after it.
C17_Witness ==
    /\ lastCall.op = "ChooseAction" /\ ~lastCall.explored
    /\ prevTable # EmptyTable
    /\ lastCall.state \notin DOMAIN prevTable
    /\ DOMAIN q_table = DOMAIN prevTable \cup {lastCall.state}

(***************************************************************************)
(* Further properties of the control loop (Spec) and of ParseState        *)
(* (SpecParse).                                                            *)
(***************************************************************************)
\* C18: during a run no value-table entry is deleted: the set of states in
\* the table never shrinks, and episode termination (UpdateAIState's save
\* and export, the block that resets the environment) changes neither the
\* table nor epsilon.
C18_NeverDeleted ==
    [][/\ DOMAIN q_table \subseteq DOMAIN q_table'
       /\ \A s \in DOMAIN q_table : DOMAIN q_table'[s] = Action
       /\ pc \in {"UpdState", "IfDone"} =>
             (q_table' = q_table /\ epsilon' = epsilon)]_vars

\* The loop is about to start a new episode after a successful reset, with
\* learned rows in the table and a decayed epsilon.
C18_Witness ==
    /\ pc = "GetState"
    /\ hist.rewardReset /\ hist.resetOk
    /\ Cardinality(DOMAIN q_table) >= 2
    /\ epsilon # epsilon0

\* C19 as stated: when loading the table at construction, or saving or
\* exporting it at episode end, fails, the control loop still runs: the
\* run is not aborted by the persistence failure.
C19_Original ==
    exc \notin {"FileNotFoundError", "OSError"}

\* The responses C20 lists: missing or empty, ERROR:, no STATE: prefix, a
\* number of fields other than nine, a non-integer integer field.
IsBadResponse(response) ==
    \/ response = NoResponse
    \/ response = Text("", <<>>)
    \/ response.tag = "ERROR:"
    \/ response.tag # "STATE:"
    \/ Len(response.fields) # 9
    \/ \E i \in {1, 2, 3, 4, 8} : ~IsIntText(response.fields[i])

\* C20: ParseState never raises and returns the error Observation (x = y =
\* mapBank = mapNum = -1, isInBattle = false, isDone = false, error marker
\* set) for every such response.
C20_ErrorObservation ==
    lastCall.op = "ParseState" =>
        /\ exc = "none"
        /\ IsBadResponse(lastCall.response) =>
              /\ IsErrorState(state)
              /\ \A k \in {"x", "y", "mapBank", "mapNum"} : state[k] = -1
              /\ state["isInBattle"] = FALSE
              /\ state["isDone"] = FALSE
        /\ ~IsBadResponse(lastCall.response) => ~IsErrorState(state)

\* A STATE: reply one field short, with done = true in it, was parsed.
C20_Witness ==
    /\ lastCall.op = "ParseState"
    /\ lastCall.response.tag = "STATE:"
    /\ Len(lastCall.response.fields) = 8
    /\ lastCall.response.fields[6] = "true"
    /\ IsErrorState(state)

(***************************************************************************)
(* Properties of the exchanges, the shutdown and the transition context   *)
(* (Spec).                                                                 *)
(***************************************************************************)
\* C24 as stated: at most one exchange is in flight at any time: a command
\* is sent only after the reply to the previous one has been received or
\* its timeout has elapsed.
C24_Original ==
    exchange # "overlapped"

\* C25 as stated: cancellation takes effect only between steps: when the
\* shutdown begins after an operator interrupt, the reply to every command
\* sent has been received or has timed out.
C25_Original ==
    (hist.interrupted /\ pc \in {"IfDone", "Finally", "Ended"}) =>
        exchange = "idle"

\* C26 as stated: on every exit path every socket and log file handle that
\* was opened has been closed before the process ends.
C26_Original ==
    pc = "Ended" => (csvFileHandle # "open" /\ sock # "open")

\* C30: the Q-update of an iteration is called with the encoding of the
\* Observation that iteration's GetState returned, the action sent in its
\* STEP, the shaper's accumulator after that Step's shaping, and the
\* encoding of the Observation that Step returned.
C30_SameIteration ==
    [][(pc = "UpdAgent" /\ ~hist'.interrupted) =>
          /\ lastCmd = <<"STEP", ActionName(action)>>
          /\ q_table' = QTableUpdate(q_table, EncodeState(hist.got), action,
                                     GetReward(rewardSystem),
                                     EncodeState(state), alpha, gamma)]_vars

\* The second iteration of a run has made its update: its GetState and its
\* Step returned Observations that encode differently, and the entry of
\* the transition has a learned value.
C30_Witness ==
    /\ pc \in {"GetState", "IfDone"} /\ ~hist.interrupted
    /\ Len(sent) >= 5 /\ sent[Len(sent)] = "STEP"
    /\ agentState = EncodeState(hist.got)
    /\ EncodeState(state) # agentState
    /\ agentState \in DOMAIN q_table
    /\ q_table[agentState][action] # Zero

(***************************************************************************)
(* Properties of the protocol client's calls (SpecParse, SpecEnv).         *)
(***************************************************************************)
\* C21 as stated: the error Observation of an exchange that timed out
\* carries a marker that distinguishes it from the error Observation of an
\* ERROR: response.
C21_Original ==
    (lastCall.op = "ParseState" /\ lastCall.response = NoResponse) =>
        state # ParseState(Text("ERROR:", <<"unknown command">>),
                           lastCall.was, GetReward(rewardSystem)).state

C23_OneCommand ==
    lastCall.op \in {"Step", "GetState", "RESET", "PING"} =>
        /\ Len(sent) <= lastCall.before + 1
        /\ lastCall.sockWas # "open" => Len(sent) = lastCall.before

\* A Step on a connected client timed out, and one command was sent for it.
C23_Witness ==
    /\ lastCall.op = "Step" /\ lastCall.sockWas = "open"
    /\ InVocabulary(Upper(lastCall.arg))
    /\ lastCall.response = NoResponse
    /\ Len(sent) = lastCall.before + 1
    /\ IsErrorState(state)

(***************************************************************************)
(* Properties of the greedy choice (SpecAgent).                            *)
(***************************************************************************)
\* C28: when ChooseAction exploits and several actions share the highest
\* value at the state, it returns the first of them in the order UP, DOWN,
\* LEFT, RIGHT, A, B; on an unseen state it returns UP.
C28_FirstMaxWins ==
    (lastCall.op = "ChooseAction" /\ ~lastCall.explored) =>
        LET row == q_table[lastCall.state]
            order == <<0, 1, 2, 3, 4, 5>>
            k == CHOOSE n \in 1..6 : order[n] = lastCall.ret
        IN  /\ \A n \in 1..6 : RLe(row[order[n]], row[lastCall.ret])
            /\ \A n \in 1..(k - 1) : RLt(row[order[n]], row[lastCall.ret])
            /\ lastCall.state \notin DOMAIN prevTable => lastCall.ret = 0

\* UP had a negative value and the five other actions shared the highest
\* value, zero: the greedy choice returned DOWN.
C28_Witness ==
    /\ lastCall.op = "ChooseAction" /\ ~lastCall.explored
    /\ RLt(q_table[lastCall.state][0], Zero)
    /\ \A a \in 1..5 : q_table[lastCall.state][a] = Zero
    /\ lastCall.ret = 1

(***************************************************************************)
(* Properties of the encoding (SpecEncode).                                *)
(***************************************************************************)
\* C27: EncodeState returns (x, y, mapBank, mapNum, 1 if isInBattle else 0,
\* ordinal of the direction name with UP=0 DOWN=1 LEFT=2 RIGHT=3), so any
\* Observation equal on these six fields encodes to the same PolicyState,
\* whatever its lastAction, step count, done flag and reward, and whatever
\* was encoded before.
C27_SixFields ==
    (lastCall.op = "EncodeState" /\ ~lastCall.raised) =>
        LET o == lastCall.obs
            code == CASE o["direction"] = "UP" -> 0
                      [] o["direction"] = "DOWN" -> 1
                      [] o["direction"] = "LEFT" -> 2
                      [] o["direction"] = "RIGHT" -> 3
        IN  /\ lastCall.ret = <<o["x"], o["y"], o["mapBank"], o["mapNum"],
                                IF o["isInBattle"] THEN 1 ELSE 0, code>>
            /\ (/\ lastCall.prev.ret # <<>>
                /\ \A k \in {"x", "y", "mapBank", "mapNum", "isInBattle",
                             "direction"} : lastCall.prev.obs[k] = o[k])
                  => lastCall.prev.ret = lastCall.ret

\* Two Observations facing LEFT in a battle, equal on the six fields and
\* different in lastAction, step count, done flag and reward, were encoded
\* one after the other to the same PolicyState.
C27_Witness ==
    /\ lastCall.op = "EncodeState" /\ ~lastCall.raised
    /\ lastCall.prev.ret = lastCall.ret
    /\ lastCall.ret = <<1, 0, 0, 16, 1, 2>>
    /\ lastCall.obs["direction"] = "LEFT"
    /\ \A k \in {"lastAction", "currentSteps", "isDone", "reward"} :
          lastCall.prev.obs[k] # lastCall.obs[k]

\* C29 as stated: EncodeState returns a PolicyState without raising for
\* every Observation GetState or Step can return, the error Observation and
\* those facing none of UP, DOWN, LEFT, RIGHT included.
C29_Original ==
    lastCall.op = "EncodeState" => ~lastCall.raised

(***************************************************************************)
(* Properties of the goal sets (SpecReward) and of the done flag           *)
(* (SpecParse).                                                            *)
(***************************************************************************)
\* C38: in every reachable RewardSystem state the pending-goal set and the
\* visited-goal set are disjoint and their union is exactly the fixed seed
\* goal set.
C38_GoalPartition ==
    /\ rewardSystem.pendingGoalLocation
          \cap rewardSystem.visitedLocationVisited = {}
    /\ rewardSystem.pendingGoalLocation
          \cup rewardSystem.visitedLocationVisited
          = {[mapBank |-> 0, mapNum |-> 16, reward |-> Rat(50, 1)],
             [mapBank |-> 1, mapNum |-> 0, reward |-> Rat(25, 1)]}

\* After a Reset, a step on map 0/16 has moved that goal to the visited
\* set and the other goal is still pending.
C38_Witness ==
    /\ lastCall.op = "UpdateRewardAction"
    /\ calls >= 3
    /\ rewardSystem.visitedLocationVisited = {Goal(0, 16, Rat(50, 1))}
    /\ rewardSystem.pendingGoalLocation = {Goal(1, 0, Rat(25, 1))}
    /\ rewardSystem.visitedTiles = {lastCall.position}

\* C35 as stated: a response for which ParseState returns the error
\* Observation leaves env.isDone unchanged.
C35_Original ==
    (lastCall.op = "ParseState" /\ IsErrorState(state)) =>
        isDone = lastCall.was

(***************************************************************************)
(* Properties of the episode end, the step log and the exploration rate   *)
(* in the control loop (Spec).                                             *)
(***************************************************************************)
\* C34 as stated: the value table persisted at episode end contains the
\* Q-update of the episode's final transition.
C34_Original ==
    (pc = "IfDone" /\ hist.pending /\ hist.saved /\ ~hist.interrupted) =>
        disk = SaveQTable(q_table)

\* C37 as stated: the reward written in the step-log row of a Step equals
\* the reward in the Observation that the same Step returns.
C37_Original ==
    (pc = "UpdState" /\ csvWriter /\ ~IsErrorState(state)) =>
        lastRow[11] = state["reward"]

\* epsilon after k multiplications by epsilon_decay, each clamped to
\* epsilon_min, from the value the agent was constructed with.
RECURSIVE Decayed(_)
Decayed(k) ==
    IF k = 0 THEN epsilon0
    ELSE RMax(RMul(Decayed(k - 1), epsilon_decay), epsilon_min)

\* The number of STEP commands sent so far.
StepsSent == Cardinality({i \in 1..Len(sent) : sent[i] = "STEP"})

C36_ResetBeforeNextEpisode ==
    hist.pending =>
        /\ hist.rewardReset = hist.resetOk
        /\ ~hist.resetOk =>
              /\ pc \notin {"GetState", "Think", "Step"}
              /\ rewardSystem.visitedTiles # {}
              /\ \E k \in 1..Len(sent) :
                    /\ sent[k] = "STEP"
                    /\ \A i \in (k + 1)..Len(sent) : sent[i] = "RESET"
        /\ (hist.resetOk /\ pc = "GetState") =>
              /\ rewardSystem.reward = Zero
              /\ rewardSystem.visitedTiles = {}
              /\ rewardSystem.pendingGoalLocation = InitGoalMaps

\* An episode has ended and two RESET commands in a row have gone
\* unacknowledged: the controller is about to send RESET again.
C36_Witness ==
    /\ pc = "IfDone" /\ isDone /\ loop
    /\ hist.pending /\ ~hist.resetOk /\ ~hist.interrupted
    /\ sent = <<"PING", "GETSTATE", "STEP", "RESET", "RESET">>
    /\ rewardSystem.visitedTiles # {}

(***************************************************************************)
(* Properties of the replies read and of the shaping of a failed Step     *)
(* (SpecEnv).                                                              *)
(***************************************************************************)
\* C32: a Step whose command was sent and whose reply is an error
\* Observation still runs the reward shaping once on it: the accumulator is
\* charged the 0.1 step cost and, the first time in the episode, gains the
\* +1 novelty bonus, (-1, -1, -1, -1) being recorded as a visited tile.
C32_ErrorStepShaped ==
    (/\ lastCall.op = "Step" /\ lastCall.sockWas = "open"
     /\ Len(sent) = lastCall.before + 1
     /\ IsErrorState(state)) =>
        LET was == lastCall.was
            tile == <<-1, -1, -1, -1>>
        IN  /\ rewardSystem.visitedTiles = was.visitedTiles \cup {tile}
            /\ rewardSystem.reward =
                  IF tile \in was.visitedTiles
                  THEN RSub(was.reward, Rat(1, 10))
                  ELSE RSub(RAdd(was.reward, One), Rat(1, 10))
            /\ rewardSystem.pendingGoalLocation = was.pendingGoalLocation
            /\ rewardSystem.visitedLocationVisited
                  = was.visitedLocationVisited

\* Two Steps in a row were sent and timed out: the first gained the bonus
\* and paid the cost (0.9), the second only paid the cost (0.8).
C32_Witness ==
    /\ lastCall.op = "Step" /\ lastCall.sockWas = "open"
    /\ Len(sent) = 2 /\ lastCall.before = 1
    /\ lastCall.response = NoResponse /\ IsErrorState(state)
    /\ lastCall.was.reward = Rat(9, 10)
    /\ lastCall.was.visitedTiles = {<<-1, -1, -1, -1>>}
    /\ rewardSystem.reward = Rat(8, 10)

\* C33 as stated: every response that Step, GetState, Reset or Ping
\* interprets is the server's reply to the command sent in that same call,
\* also after an earlier command timed out and its reply arrived late.
C33_Original ==
    (/\ lastCall.op \in {"Step", "GetState", "RESET", "PING"}
     /\ lastCall.response # NoResponse) =>
        lastCall.of = Len(sent)

(***************************************************************************)
(* Properties of the repeated decay (SpecConverge).                        *)
(***************************************************************************)
\* The preconditions of the claim, those of its amendment, and the
\* parameters with which epsilon stays above its floor.
DecaysFromAbove ==
    RLt(epsilon_decay, One) /\ RLe(epsilon_min, epsilon0)

PositiveFloor == RLt(Zero, epsilon_min)

NoFloorAbove ==
    /\ RLe(epsilon_min, Zero) /\ RLt(Zero, epsilon0)
    /\ RLt(Zero, epsilon_decay) /\ RLt(epsilon_decay, One)

AtFloor == epsilon = epsilon_min

StaysAtFloor ==
    (lastCall.op = "DecayEpsilon" /\ prevEpsilon = epsilon_min) => AtFloor

AboveFloor == RLt(epsilon_min, epsilon)

ConvergedAsStated == DecaysFromAbove => AtFloor

Converged == (PositiveFloor /\ DecaysFromAbove) => AtFloor

FloorNotReached == NoFloorAbove => AboveFloor

=============================================================================
